---- MODULE Spec2Model ----
(***************************************************************************)
(* A model of 01_parse_descriptions/01_alliance_template.py: the script    *)
(* that builds the description page of one vegetation classification unit. *)
(*                                                                         *)
(* The script is one straight run.  The module holds one state machine per *)
(* part of it, all over the same variables:                                *)
(*   FilterSpec     the inclusion rule of the diagnostic-set and species-  *)
(*                  composition tables (lines 767-783 and 965-981);        *)
(*   StructureSpec  the structure summary handed to the treemap            *)
(*                  (lines 592-618);                                       *)
(*   SentinelSpec   the missing-data handling of every measurement column  *)
(*                  (lines 278-281, 442, 496-520, 1181-1300);              *)
(*   ParseSpec      parse_markdown (lines 92-116);                         *)
(*   Spec           the run as a whole, statement group by statement group;*)
(*   VegetationSpec the vegetation cover records (lines 278-431);          *)
(*   PercentileSpec the percentiles of the statistics;                     *)
(*   InjectSpec     the site visit codes put into the queries              *)
(*                  (lines 256-259);                                       *)
(*   CryptogamSpec  the bryophyte and lichen records (lines 314-427);      *)
(*   StatisticsSpec the diagnostic-set and composition tables              *)
(*                  (lines 673-1041);                                      *)
(*   EnvSpec        the environment texts (lines 1105-1179).               *)
(*                                                                         *)
(* Numbers: covers, constancies and statistics are kept as integers in     *)
(* hundredths before DataFrame.round(1) and in tenths after it.            *)
(***************************************************************************)
EXTENDS Integers, Sequences, FiniteSets, TLC

VARIABLES
    pc,                  \* the statement group the run is at
    \* ---- inclusion rule
    merged_diagnostic,   \* constancy merged with cover statistics, before round(1)
    merged_composition,
    stats_diagnostic,    \* the table after round(1) and after the filter (its rows;
                         \* in StatisticsSpec its rows in their order)
    stats_composition,
    \* ---- structure summary
    structure_biotic,    \* mean cover by taxon habit (hundredths)
    structure_abiotic,   \* mean cover by abiotic element, then rescaled
    abiotic_adjustment,  \* the factor of line 607
    structure_summary,   \* the rows handed to the treemap (tenths)
    \* ---- missing-data codes
    measurement,         \* the column being summarised
    column_query,        \* the column as the query or raster returned it
    column_data,         \* the column as the statements of the script leave it
    column_before,       \* the column just before its sentinel statement
    \* ---- the data entry file and parse_markdown
    text_file,           \* the content of text_input, or NoFile
    label,
    text_output,
    \* ---- the run
    sites,               \* the site visits of the database, with their raster values
    db,                  \* what the database holds for them
    status,              \* "running", "crashed" (an uncaught error) or "done"
    error,               \* the uncaught error
    unit_name,
    level_text,
    photo_text,
    connections,         \* database connections opened so far
    issued,              \* the queries sent so far, in order
    in_flight,           \* the query sent and not yet answered
    site_visit_data,     \* its rows, as site visit numbers
    bryophyte_sites,
    lichen_sites,
    veg_type,            \* the label joined to each row
    input_sql,
    frames,              \* the site visits of the rows of every other data frame
    aggregated,          \* the site visits whose records reached a statistic
    zero_division,       \* the calculations that divided by zero
    files_written,
    replacements,        \* the replacement map of line 1375, in insertion order
    md_content,          \* the template with the replacements applied
    surfacewater_frequency,  \* the surface water figure of line 1178, as text
    \* ---- vegetation cover records
    vegetation_rows,     \* the rows the vegetation query returned
    schema_data,         \* the rows (diagnostic set, constituent) of the schema
    vegetation_data,     \* the rows as the statements of the script leave them
    vascular_data,
    bryophyte_data,
    lichen_data,
    diagnostic_vascular,
    diagnostic_bryophyte,
    constancy_tables,    \* constancy_vascular, constancy_bryophyte, ..., by name
    \* ---- percentile helpers
    series,              \* the column handed to the helpers
    percentiles,         \* what each helper returned, in hundredths
    \* ---- query files
    query_file,          \* the text read from a query file
    query_sent,          \* the text handed to query_to_dataframe
    \* ---- composition table and chart
    table_composition,   \* the rows of the display table, in order
    composition_plot,    \* the rows handed to the chart, in order
    \* ---- environment texts
    environment_data,    \* the categorical columns: how often each value occurs
    environment_text     \* physiography_text, ..., restrict_text, by name

filterVars == <<merged_diagnostic, merged_composition, stats_diagnostic, stats_composition>>
structVars == <<structure_biotic, structure_abiotic, abiotic_adjustment, structure_summary>>
sentinelVars == <<measurement, column_query, column_data, column_before>>
parseVars == <<text_file, label, text_output>>
inputVars == <<sites, db>>
errorVars == <<status, error>>
fieldVars == <<unit_name, level_text, photo_text>>
queryVars == <<connections, issued, in_flight>>
siteVars == <<site_visit_data, bryophyte_sites, lichen_sites, veg_type, input_sql>>
frameVars == <<frames, aggregated, zero_division>>
reportVars == <<replacements, md_content, surfacewater_frequency>>
runVars ==
    <<inputVars, errorVars, fieldVars, queryVars, siteVars, frameVars, files_written,
      reportVars>>

vegVars ==
    <<vegetation_rows, schema_data, vegetation_data, vascular_data, bryophyte_data,
      lichen_data, diagnostic_vascular, diagnostic_bryophyte, constancy_tables>>
quantVars == <<series, percentiles>>
injectVars == <<query_file, query_sent>>
tableVars == <<table_composition, composition_plot>>
envVars == <<environment_data, environment_text>>
calcVars == <<vegVars, quantVars, injectVars, tableVars, envVars>>

vars == <<pc, filterVars, structVars, sentinelVars, parseVars, runVars, calcVars>>

(***************************************************************************)
(* Bounds of the model.                                                    *)
(***************************************************************************)
MaxRows == 2        \* rows of a statistics table
MaxCol == 3         \* cells of a measurement column
MaxLen == 4         \* tokens of the data entry file
NumSites == 2       \* site visits in the database

(***************************************************************************)
(* The state of the parts a specification does not run.                    *)
(***************************************************************************)
FilterIdle ==
    /\ merged_diagnostic = {}
    /\ merged_composition = {}
    /\ stats_diagnostic = {}
    /\ stats_composition = {}

StructureIdle ==
    /\ structure_biotic = <<>>
    /\ structure_abiotic = <<>>
    /\ abiotic_adjustment = <<>>
    /\ structure_summary = <<>>

SentinelIdle ==
    /\ measurement = "none"
    /\ column_query = <<>>
    /\ column_data = <<>>
    /\ column_before = <<>>

ParseIdle ==
    /\ text_file = <<>>
    /\ label = "none"
    /\ text_output = <<>>

VegetationIdle ==
    /\ vegetation_rows = <<>>
    /\ schema_data = <<>>
    /\ vegetation_data = <<>>
    /\ vascular_data = <<>>
    /\ bryophyte_data = <<>>
    /\ lichen_data = <<>>
    /\ diagnostic_vascular = <<>>
    /\ diagnostic_bryophyte = <<>>
    /\ constancy_tables = <<>>

QuantileIdle ==
    /\ series = <<>>
    /\ percentiles = <<>>

InjectIdle ==
    /\ query_file = <<>>
    /\ query_sent = <<>>

TableIdle ==
    /\ table_composition = <<>>
    /\ composition_plot = <<>>

EnvIdle ==
    /\ environment_data = <<>>
    /\ environment_text = <<>>

CalcIdle == VegetationIdle /\ QuantileIdle /\ InjectIdle /\ TableIdle /\ EnvIdle

CryptogamIdle ==
    /\ bryophyte_sites = {}
    /\ lichen_sites = {}

RunRestIdle ==
    /\ sites = <<>>
    /\ db = <<>>
    /\ status = "running"
    /\ error = "none"
    /\ unit_name = <<>>
    /\ level_text = <<>>
    /\ photo_text = <<>>
    /\ connections = 0
    /\ issued = <<>>
    /\ in_flight = "none"
    /\ site_visit_data = <<>>
    /\ veg_type = <<>>
    /\ input_sql = <<>>
    /\ frames = <<>>
    /\ aggregated = {}
    /\ zero_division = {}
    /\ files_written = <<>>
    /\ replacements = <<>>
    /\ md_content = <<>>
    /\ surfacewater_frequency = <<>>

RunIdle ==
    /\ CryptogamIdle
    /\ RunRestIdle

(***************************************************************************)
(* Helpers: numpy's rounding.                                              *)
(***************************************************************************)

\* n/d rounded to the nearest integer, halves to the even neighbour (d > 0).
\* numpy.round, which DataFrame.round uses, rounds half to even.
RoundHalfEven(n, d) ==
    LET q == n \div d
        r == n % d
    IN  IF 2 * r < d THEN q
        ELSE IF 2 * r > d THEN q + 1
        ELSE IF q % 2 = 0 THEN q ELSE q + 1

\* .round(1) of a value held in hundredths: the result is in tenths.
Round1(h) == RoundHalfEven(h, 10)

(***************************************************************************)
(* The inclusion rule (lines 767-783 and 965-981).                         *)
(***************************************************************************)

\* Statistics rows before rounding, in hundredths.  The values sit on both
\* sides of every threshold of the rule, and on the halves that round(1)
\* moves onto a threshold (24.95 -> 25.0 but 0.85 -> 0.8).
ConstancyValues == {1000, 2495, 3000, 5000}
MeanValues == {95, 195, 250, 500}
P75Values == {85, 120, 200}

MergedRows == [constancy : ConstancyValues, mean : MeanValues, p75 : P75Values]

\* All tables of at most n rows.
RECURSIVE Tables(_)
Tables(n) ==
    IF n = 0 THEN {{}}
    ELSE LET smaller == Tables(n - 1)
         IN  smaller \cup {t \cup {r} : t \in smaller, r \in MergedRows}

\* .round(1) of one row (lines 771 and 969).
RoundRow(r) == [constancy |-> Round1(r.constancy),
                mean |-> Round1(r.mean),
                p75 |-> Round1(r.p75)]

\* The rule with its second alternative lost.
KeepDiagnostic_OneAlternative(r) ==
    r.p75 >= 10 /\ r.constancy >= 250 /\ r.mean >= 20

\* Lines 778-782; the row is in tenths.
KeepDiagnostic(r) ==
    /\ r.p75 >= 10
    /\ \/ (r.constancy >= 250 /\ r.mean >= 20)
       \/ (r.constancy >= 500 /\ r.mean >= 10)

\* Lines 976-980; the row is in tenths.
KeepComposition(r) ==
    /\ r.p75 >= 10
    /\ \/ (r.constancy >= 250 /\ r.mean >= 20)
       \/ (r.constancy >= 500 /\ r.mean >= 10)

\* The two rows of the specification's example, as merged (unrounded) rows.
ExampleRows == {[constancy |-> 3000, mean |-> 250, p75 |-> 120],
                [constancy |-> 1000, mean |-> 500, p75 |-> 200]}

FilterInit ==
    /\ pc = "merge_diagnostic"
    /\ \/ merged_diagnostic \in Tables(MaxRows) /\ merged_composition = ExampleRows
       \/ merged_diagnostic = ExampleRows /\ merged_composition \in Tables(MaxRows)
    /\ stats_diagnostic = {}
    /\ stats_composition = {}
    /\ StructureIdle /\ SentinelIdle /\ ParseIdle /\ RunIdle /\ CalcIdle

\* Lines 767-775: the merged table, rounded to one decimal.
RoundDiagnostic ==
    /\ pc = "merge_diagnostic"
    /\ stats_diagnostic' = {RoundRow(r) : r \in merged_diagnostic}
    /\ pc' = "filter_diagnostic"
    /\ UNCHANGED <<merged_diagnostic, merged_composition, stats_composition>>
    /\ UNCHANGED <<structVars, sentinelVars, parseVars, runVars, calcVars>>

\* Lines 777-783: the filter (the sort that follows orders the rows; a set
\* has no order).
FilterDiagnostic ==
    /\ pc = "filter_diagnostic"
    /\ stats_diagnostic' = {r \in stats_diagnostic : KeepDiagnostic(r)}
    /\ pc' = "merge_composition"
    /\ UNCHANGED <<merged_diagnostic, merged_composition, stats_composition>>
    /\ UNCHANGED <<structVars, sentinelVars, parseVars, runVars, calcVars>>

\* Lines 965-973.
RoundComposition ==
    /\ pc = "merge_composition"
    /\ stats_composition' = {RoundRow(r) : r \in merged_composition}
    /\ pc' = "filter_composition"
    /\ UNCHANGED <<merged_diagnostic, merged_composition, stats_diagnostic>>
    /\ UNCHANGED <<structVars, sentinelVars, parseVars, runVars, calcVars>>

\* Lines 975-981.
FilterComposition ==
    /\ pc = "filter_composition"
    /\ stats_composition' = {r \in stats_composition : KeepComposition(r)}
    /\ pc' = "filtered"
    /\ UNCHANGED <<merged_diagnostic, merged_composition, stats_diagnostic>>
    /\ UNCHANGED <<structVars, sentinelVars, parseVars, runVars, calcVars>>

FilterNext ==
    \/ RoundDiagnostic
    \/ FilterDiagnostic
    \/ RoundComposition
    \/ FilterComposition

FilterSpec == FilterInit /\ [][FilterNext]_vars

(***************************************************************************)
(* C1.  In both tables a row is kept if and only if, on its values rounded *)
(* to one decimal, the 75th percentile is >= 1 and (constancy >= 25 and    *)
(* mean >= 2, or constancy >= 50 and mean >= 1); the row (30, 2.5, 1.2) is *)
(* kept and the row (10, 5, 2) is dropped, in both tables.                 *)
(***************************************************************************)
C1_Rule(constancy, mean, p75) ==
    p75 >= 10 /\ ((constancy >= 250 /\ mean >= 20) \/ (constancy >= 500 /\ mean >= 10))

C1_RowKept(table, r) == RoundRow(r) \in table

C1_InclusionRule ==
    pc = "filtered" =>
        /\ \A r \in merged_diagnostic :
              C1_RowKept(stats_diagnostic, r)
                  <=> C1_Rule(Round1(r.constancy), Round1(r.mean), Round1(r.p75))
        /\ \A r \in merged_composition :
              C1_RowKept(stats_composition, r)
                  <=> C1_Rule(Round1(r.constancy), Round1(r.mean), Round1(r.p75))
        /\ \A r \in ExampleRows :
              /\ r \in merged_diagnostic =>
                    (C1_RowKept(stats_diagnostic, r) <=> r.constancy = 3000)
              /\ r \in merged_composition =>
                    (C1_RowKept(stats_composition, r) <=> r.constancy = 3000)

\* A filtered state in which the example rows were decided and a row was
\* kept only because rounding moved it onto a threshold.
C1_Witness ==
    /\ pc = "filtered"
    /\ merged_composition = ExampleRows
    /\ [constancy |-> 300, mean |-> 25, p75 |-> 12] \in stats_composition
    /\ [constancy |-> 100, mean |-> 50, p75 |-> 20] \notin stats_composition
    /\ \E r \in merged_diagnostic :
          r.constancy = 2495 /\ r.mean = 195 /\ RoundRow(r) \in stats_diagnostic

(***************************************************************************)
(* The structure summary (lines 592-618).                                  *)
(*                                                                         *)
(* A row is [structure, num, den, nan]: the mean num/den in hundredths of  *)
(* a percent (den > 0), or NaN.  Covers are never negative here.           *)
(***************************************************************************)

\* Mean covers by habit and by abiotic element, in hundredths.
BioticMeans == {0, 1000, 3333, 6000}
AbioticMeans == {0, 1000, 3333}

Row(name, m) == [structure |-> name, num |-> m, den |-> 1, nan |-> FALSE]

\* Series.sum() of the means of finite rows with den = 1.
RECURSIVE SumMeans(_)
SumMeans(rows) ==
    IF rows = <<>> THEN 0 ELSE Head(rows).num + SumMeans(Tail(rows))

\* Line 608: mean * abiotic_adjustment, the adjustment being the quotient
\* remainder / abiotic_sum of two floats.  A zero abiotic_sum raises nothing:
\* the quotient is inf or NaN, and its product with a mean of 0 is NaN.
Rescale(row, adjustment) ==
    IF adjustment.den = 0
    THEN [structure |-> row.structure, num |-> 0, den |-> 1, nan |-> TRUE]
    ELSE [structure |-> row.structure, num |-> row.num * adjustment.num,
          den |-> adjustment.den, nan |-> FALSE]

\* Line 612: .round(1); the result is in tenths.  NaN stays NaN.
RoundStructure(row) ==
    [structure |-> row.structure,
     mean |-> IF row.nan THEN 0 ELSE RoundHalfEven(row.num, row.den * 10),
     nan |-> row.nan]

\* Line 615: mean > 0, which is false of NaN.
PositiveRow(row) == ~row.nan /\ row.mean > 0

RECURSIVE MapRows(_, _)
MapRows(rows, adjustment) ==
    IF rows = <<>> THEN <<>>
    ELSE <<Rescale(Head(rows), adjustment)>> \o MapRows(Tail(rows), adjustment)

RECURSIVE SummaryRows(_)
SummaryRows(rows) ==
    IF rows = <<>> THEN <<>>
    ELSE LET r == RoundStructure(Head(rows))
         IN  (IF PositiveRow(r) THEN <<r>> ELSE <<>>) \o SummaryRows(Tail(rows))

\* The values px.treemap receives (line 645), summed.
RECURSIVE TreemapTotal(_)
TreemapTotal(rows) ==
    IF rows = <<>> THEN 0 ELSE Head(rows).mean + TreemapTotal(Tail(rows))

StructureInit ==
    /\ pc = "structure_biotic"
    /\ \E g \in BioticMeans, m \in BioticMeans, l \in BioticMeans :
          structure_biotic = <<Row("graminoid", g), Row("moss", m), Row("lichen", l)>>
    /\ \E w \in AbioticMeans, so \in AbioticMeans :
          structure_abiotic \in {<<>>, <<Row("water", w)>>,
                                 <<Row("water", w), Row("soil", so)>>}
    /\ abiotic_adjustment = <<>>
    /\ structure_summary = <<>>
    /\ FilterIdle /\ SentinelIdle /\ ParseIdle /\ RunIdle /\ CalcIdle

\* Lines 595-607: biotic_sum, abiotic_remainder, abiotic_sum and their quotient.
AbioticAdjustment ==
    /\ pc = "structure_biotic"
    /\ abiotic_adjustment' = [num |-> 10000 - SumMeans(structure_biotic),
                              den |-> SumMeans(structure_abiotic)]
    /\ pc' = "rescale"
    /\ UNCHANGED <<structure_biotic, structure_abiotic, structure_summary>>
    /\ UNCHANGED <<filterVars, sentinelVars, parseVars, runVars, calcVars>>

\* Line 608.
RescaleAbiotic ==
    /\ pc = "rescale"
    /\ structure_abiotic' = MapRows(structure_abiotic, abiotic_adjustment)
    /\ pc' = "structure_summary"
    /\ UNCHANGED <<structure_biotic, abiotic_adjustment, structure_summary>>
    /\ UNCHANGED <<filterVars, sentinelVars, parseVars, runVars, calcVars>>

\* Lines 610-618: concatenate, round, drop the rows that are not positive.
StructureSummary ==
    /\ pc = "structure_summary"
    /\ structure_summary' = SummaryRows(structure_biotic \o structure_abiotic)
    /\ pc' = "treemap"
    /\ UNCHANGED <<structure_biotic, structure_abiotic, abiotic_adjustment>>
    /\ UNCHANGED <<filterVars, sentinelVars, parseVars, runVars, calcVars>>

StructureNext ==
    \/ AbioticAdjustment
    \/ RescaleAbiotic
    \/ StructureSummary

StructureSpec == StructureInit /\ [][StructureNext]_vars

(***************************************************************************)
(* C2.  The values handed to the structure treemap sum to 100, for every   *)
(* input of biotic and abiotic mean covers, also when the biotic sum       *)
(* exceeds 100 and when the abiotic sum is 0.                              *)
(***************************************************************************)
C2_TreemapSumsTo100 ==
    pc = "treemap" => TreemapTotal(structure_summary) = 1000

(***************************************************************************)
(* Missing-data codes (lines 278-281, 442, 496-520, 599-603, 1181-1300).   *)
(*                                                                         *)
(* A column is a sequence of cells [isnull, value]; a null cell has the    *)
(* value 0.  pd.to_numeric leaves the numbers of a numeric column as they  *)
(* are.                                                                    *)
(***************************************************************************)

\* The columns whose rows pass `column != code` before they are summarised.
FilteredMeasurements ==
    {"height_cm", "tussock_cover_percent", "elevation_m", "slope_deg",
     "depth_water_cm", "depth_moss_duff_cm", "depth_restrictive_layer_cm",
     "ph", "conductivity_mus"}

\* Abiotic top cover (lines 442 and 600) and vegetation cover (lines 279-281).
Measurements == FilteredMeasurements \cup {"abiotic_cover_percent", "cover_percent"}

\* The code each statement compares with (lines 501, 520, 1184, 1201, 1218,
\* 1235, 1254, 1271, 1288), and the one line 281 replaces.
SentinelCode(m) == IF m \in {"elevation_m", "slope_deg"} THEN -32768 ELSE -999

CellValues == {-32768, -999, 0, 12}
Cells == {[isnull |-> TRUE, value |-> 0]}
             \cup {[isnull |-> FALSE, value |-> v] : v \in CellValues}

\* All columns of at most n cells.
RECURSIVE Columns(_)
Columns(n) ==
    IF n = 0 THEN {<<>>}
    ELSE LET shorter == Columns(n - 1)
         IN  shorter \cup {Append(c, x) : c \in shorter, x \in Cells}

\* .dropna()
RECURSIVE DropNaCells(_)
DropNaCells(col) ==
    IF col = <<>> THEN <<>>
    ELSE (IF Head(col).isnull THEN <<>> ELSE <<Head(col)>>) \o DropNaCells(Tail(col))

\* The comparison written as > : it also drops what lies below the code.
KeepCell_Greater(cell, code) == cell.value > code

\* frame[frame[column] != code]
KeepCell(cell, code) == cell.value # code

RECURSIVE FilterCells(_, _)
FilterCells(col, code) ==
    IF col = <<>> THEN <<>>
    ELSE (IF KeepCell(Head(col), code) THEN <<Head(col)>> ELSE <<>>)
             \o FilterCells(Tail(col), code)

\* .replace(-999, 0) of line 281: the row stays, its value becomes 0.
ReplaceCell(cell, code) ==
    IF ~cell.isnull /\ cell.value = code
    THEN [isnull |-> FALSE, value |-> 0]
    ELSE cell

RECURSIVE ReplaceCells(_, _)
ReplaceCells(col, code) ==
    IF col = <<>> THEN <<>>
    ELSE <<ReplaceCell(Head(col), code)>> \o ReplaceCells(Tail(col), code)

SentinelInit ==
    /\ pc = "select"
    /\ measurement \in Measurements
    /\ column_query \in Columns(MaxCol)
    /\ column_data = column_query
    /\ column_before = <<>>
    /\ FilterIdle /\ StructureIdle /\ ParseIdle /\ RunIdle /\ CalcIdle

\* Lines 497-500, 516-519, 1182-1183, 1199-1200, 1216-1217, 1233-1234,
\* 1250-1253, 1269-1270, 1286-1287: the column without its null rows.
DropNa ==
    /\ pc = "select"
    /\ measurement \in FilteredMeasurements
    /\ column_data' = DropNaCells(column_data)
    /\ pc' = "sentinel"
    /\ UNCHANGED <<measurement, column_query, column_before>>
    /\ UNCHANGED <<filterVars, structVars, parseVars, runVars, calcVars>>

\* Lines 501, 520, 1184, 1201, 1218, 1235, 1254, 1271, 1288.
SentinelFilter ==
    /\ pc = "sentinel"
    /\ measurement \in FilteredMeasurements
    /\ column_before' = column_data
    /\ column_data' = FilterCells(column_data, SentinelCode(measurement))
    /\ pc' = "aggregate"
    /\ UNCHANGED <<measurement, column_query>>
    /\ UNCHANGED <<filterVars, structVars, parseVars, runVars, calcVars>>

\* Lines 278-281: vegetation cover; explicit absences become 0.
ReplaceAbsence ==
    /\ pc = "select"
    /\ measurement = "cover_percent"
    /\ column_before' = column_data
    /\ column_data' = ReplaceCells(column_data, SentinelCode(measurement))
    /\ pc' = "aggregate"
    /\ UNCHANGED <<measurement, column_query>>
    /\ UNCHANGED <<filterVars, structVars, parseVars, runVars, calcVars>>

\* Line 442: abiotic top cover is made numeric and nothing else.
AbioticToNumeric ==
    /\ pc = "select"
    /\ measurement = "abiotic_cover_percent"
    /\ pc' = "aggregate"
    /\ UNCHANGED <<measurement, column_query, column_data, column_before>>
    /\ UNCHANGED <<filterVars, structVars, parseVars, runVars, calcVars>>

\* .agg([...]), .mean() and .sum() (lines 502-513, 600-601, 1185-1196, ...)
\* skip null cells: column_data is now what the statistics are computed over.
Aggregate ==
    /\ pc = "aggregate"
    /\ column_data' = DropNaCells(column_data)
    /\ pc' = "aggregated"
    /\ UNCHANGED <<measurement, column_query, column_before>>
    /\ UNCHANGED <<filterVars, structVars, parseVars, runVars, calcVars>>

SentinelNext ==
    \/ DropNa
    \/ SentinelFilter
    \/ ReplaceAbsence
    \/ AbioticToNumeric
    \/ Aggregate

SentinelSpec == SentinelInit /\ [][SentinelNext]_vars

\* How often the value v occurs in a column.
Count(col, v) == Cardinality({i \in DOMAIN col : ~col[i].isnull /\ col[i].value = v})

\* The missing-data code documented for a column: -32768 for the values
\* sampled from the elevation and slope rasters, -999 for database columns.
DocumentedCode(m) == IF m \in {"elevation_m", "slope_deg"} THEN -32768 ELSE -999

(***************************************************************************)
(* C4.  No statistic of a structural, environmental or soil measurement    *)
(* (shrub height, tussock cover, abiotic top cover, the depths, pH,        *)
(* conductivity, elevation, slope) is computed over a value equal to the   *)
(* measurement's missing-data code.                                        *)
(***************************************************************************)
C4_NoSentinelAggregated ==
    (pc = "aggregated" /\ measurement # "cover_percent")
        => Count(column_data, DocumentedCode(measurement)) = 0

(***************************************************************************)
(* C5 as claimed.  Every sentinel step, the one of the vegetation cover    *)
(* column included, removes exactly the rows holding the missing-data code *)
(* and keeps the others: the values after it are the values before it      *)
(* without the code.                                                       *)
(***************************************************************************)
C5_RemovesExactlySentinels ==
    (pc = "aggregate" /\ measurement # "abiotic_cover_percent")
        => \A v \in CellValues :
              Count(column_data, v) =
                  IF v = DocumentedCode(measurement) THEN 0 ELSE Count(column_before, v)

(***************************************************************************)
(* C5 as amended.  Each filtering step of a structural, environmental or   *)
(* soil column removes exactly the rows equal to that column's code (-999, *)
(* or -32768 for elevation and slope) and keeps every other row, the other *)
(* code included.  The vegetation cover column is not filtered:            *)
(* its -999 become 0 and every row stays.                                  *)
(***************************************************************************)
C5_FilterOrReplace ==
    pc = "aggregate" =>
        /\ measurement \in FilteredMeasurements =>
              /\ \A v \in CellValues :
                    Count(column_data, v) =
                        IF v = DocumentedCode(measurement) THEN 0
                        ELSE Count(column_before, v)
              /\ Len(column_data)
                     = Len(column_before) - Count(column_before, DocumentedCode(measurement))
        /\ measurement = "cover_percent" =>
              /\ Len(column_data) = Len(column_before)
              /\ \A i \in DOMAIN column_data :
                    column_data[i] =
                        IF ~column_before[i].isnull /\ column_before[i].value = -999
                        THEN [isnull |-> FALSE, value |-> 0]
                        ELSE column_before[i]

\* A filter that met its own code and the other one, and removed only its own.
C5_Witness ==
    /\ pc = "aggregate"
    /\ measurement = "ph"
    /\ Count(column_before, -999) = 1
    /\ Count(column_before, -32768) = 1
    /\ Len(column_before) = 3
    /\ Len(column_data) = 2

(***************************************************************************)
(* parse_markdown (lines 92-116).                                          *)
(*                                                                         *)
(* A text is a sequence of tokens: the bold field labels, a blank, a line  *)
(* break, and words.  None, a missing file and the error of open() are     *)
(* one-token sequences that no file content holds.                         *)
(***************************************************************************)
None == <<"None">>
NoFile == <<"no such file">>
FileNotFoundError == <<"FileNotFoundError">>

\* r'\*\*' + label + r':\*\*' (line 98)
Marker(lab) ==
    CASE lab = "Unit Name" -> "**Unit Name:**"
      [] lab = "Level" -> "**Level:**"
      [] lab = "Photos" -> "**Photos:**"

\* What \s matches, and what str.strip() removes.
Whitespace == {" ", "\n"}

Min(S) == CHOOSE x \in S : \A y \in S : x <= y

\* open(text_input, 'r').read() (lines 105-106)
OpenRead(file) == IF file = NoFile THEN FileNotFoundError ELSE file

\* \s* from position j on: the first position that holds no whitespace.
RECURSIVE SkipWhitespace(_, _)
SkipWhitespace(content, j) ==
    IF j <= Len(content) /\ content[j] \in Whitespace
    THEN SkipWhitespace(content, j + 1)
    ELSE j

\* (.*) from position j on: it stops before the next line break.
RECURSIVE LineEnd(_, _)
LineEnd(content, j) ==
    IF j <= Len(content) /\ content[j] # "\n"
    THEN LineEnd(content, j + 1)
    ELSE j

\* str.strip()
RECURSIVE Strip(_)
Strip(text) ==
    IF text = <<>> THEN <<>>
    ELSE IF Head(text) \in Whitespace THEN Strip(Tail(text))
    ELSE IF text[Len(text)] \in Whitespace THEN Strip(SubSeq(text, 1, Len(text) - 1))
    ELSE text

\* parse_markdown without its except clause: the error of open() leaves it.
parse_markdown_uncaught(file, lab) ==
    LET content == OpenRead(file)
    IN  IF content = FileNotFoundError
        THEN FileNotFoundError
        ELSE LET starts == {i \in DOMAIN content : content[i] = Marker(lab)}
             IN  IF starts = {}
                 THEN None
                 ELSE LET j == SkipWhitespace(content, Min(starts) + 1)
                      IN  Strip(SubSeq(content, j, LineEnd(content, j) - 1))

\* Lines 93-116.  re.search takes the leftmost match, and the pattern
\* matches wherever the label stands, for \s*(.*) matches the empty text.
parse_markdown(file, lab) ==
    LET content == OpenRead(file)
    IN  IF content = FileNotFoundError
        THEN None                                   \* except: print, lines 112-113
        ELSE LET starts == {i \in DOMAIN content : content[i] = Marker(lab)}
             IN  IF starts = {}
                 THEN None
                 ELSE LET j == SkipWhitespace(content, Min(starts) + 1)
                      IN  Strip(SubSeq(content, j, LineEnd(content, j) - 1))

Tokens == {"**Level:**", "**Photos:**", " ", "\n", "a"}

\* All texts of at most n tokens.
RECURSIVE Texts(_)
Texts(n) ==
    IF n = 0 THEN {<<>>}
    ELSE LET shorter == Texts(n - 1)
         IN  shorter \cup {Append(t, x) : t \in shorter, x \in Tokens}

ParseInit ==
    /\ pc = "parse_markdown"
    /\ text_file \in Texts(MaxLen) \cup {NoFile}
    /\ label \in {"Level", "Photos"}
    /\ text_output = <<>>
    /\ FilterIdle /\ StructureIdle /\ SentinelIdle /\ RunIdle /\ CalcIdle

\* One call of parse_markdown; an error it does not catch ends the call.
ParseMarkdown ==
    /\ pc = "parse_markdown"
    /\ LET result == parse_markdown(text_file, label)
       IN  /\ text_output' = result
           /\ pc' = IF result = FileNotFoundError THEN "raised" ELSE "returned"
    /\ UNCHANGED <<text_file, label>>
    /\ UNCHANGED <<filterVars, structVars, sentinelVars, runVars, calcVars>>

ParseNext == ParseMarkdown

ParseSpec == ParseInit /\ [][ParseNext]_vars

(***************************************************************************)
(* C6.  parse_markdown returns the text between the first `**<label>:**`   *)
(* and the end of that line, without the whitespace around it, and null    *)
(* when the content holds no `**<label>:**`.                               *)
(***************************************************************************)
C6_Field(content, lab) ==
    LET starts == {i \in DOMAIN content : content[i] = Marker(lab)}
    IN  IF starts = {} THEN None
        ELSE LET i == Min(starts)
             IN  Strip(SubSeq(content, i + 1, LineEnd(content, i + 1) - 1))

C6_RestOfLabelLine ==
    (pc = "returned" /\ text_file # NoFile) => text_output = C6_Field(text_file, label)

(***************************************************************************)
(* The run (lines 118-1620), one action per group of statements.           *)
(***************************************************************************)

\* The project query moved up, before the site visits are selected.
Program_ProjectFirst ==
    <<"parse_markdown", "photo_list", "connect",
      "taxonomy", "project", "site_visit",
      "filter_site_visits", "merge_attributes", "filter_unit", "input_sql",
      "vegetation", "vegetation_data",
      "abiotic_top_cover", "whole_tussock_cover", "ground_cover",
      "structural_group_cover", "shrub_structure", "environment",
      "soil_metrics", "soil_horizons",
      "structure", "structure_output",
      "diagnostic", "diagnostic_output",
      "composition", "composition_output",
      "environment_frequency", "surfacewater_frequency", "environment_statistics",
      "replacements", "html_output">>

\* The statement groups in the order in which the script holds them.  A
\* group named after a query file sends that query and waits for its rows.
Program ==
    <<"parse_markdown", "photo_list", "connect",
      "taxonomy", "site_visit",
      "filter_site_visits", "merge_attributes", "filter_unit", "input_sql",
      "project", "vegetation", "vegetation_data",
      "abiotic_top_cover", "whole_tussock_cover", "ground_cover",
      "structural_group_cover", "shrub_structure", "environment",
      "soil_metrics", "soil_horizons",
      "structure", "structure_output",
      "diagnostic", "diagnostic_output",
      "composition", "composition_output",
      "environment_frequency", "surfacewater_frequency", "environment_statistics",
      "replacements", "html_output">>

\* The group after p.
NextPc(p) ==
    LET i == CHOOSE k \in DOMAIN Program : Program[k] = p
    IN  IF i = Len(Program) THEN "end" ELSE Program[i + 1]

\* Lines 60-71: the query files.
QueryNames ==
    {"taxonomy", "site_visit", "project", "vegetation", "abiotic_top_cover",
     "whole_tussock_cover", "ground_cover", "structural_group_cover",
     "shrub_structure", "environment", "soil_metrics", "soil_horizons"}

\* The queries whose text receives input_sql (lines 265, 275, 440, ..., 490).
FilteredQueries == QueryNames \ {"taxonomy", "site_visit"}

\* The data frame that holds the rows of a query.
FrameOf(q) ==
    CASE q = "project" -> "project_data"
      [] q = "vegetation" -> "vegetation_data"
      [] q = "abiotic_top_cover" -> "abiotic_data"
      [] q = "whole_tussock_cover" -> "tussock_data"
      [] q = "ground_cover" -> "ground_data"
      [] q = "structural_group_cover" -> "structural_data"
      [] q = "shrub_structure" -> "shrub_data"
      [] q = "environment" -> "environment_data"
      [] q = "soil_metrics" -> "soilmetrics_data"
      [] q = "soil_horizons" -> "soilhorizons_data"

FrameNames ==
    {FrameOf(q) : q \in FilteredQueries}
        \cup {"vascular_data", "bryophyte_data", "lichen_data"}

\* ---- the inputs of a run

\* The data entry file: complete, with one field missing, or absent.
UnitLine == <<"**Unit Name:**", " ", "T", "\n">>
LevelLine == <<"**Level:**", " ", "Alliance", "\n">>
PhotosLine == <<"**Photos:**", " ", "p.jpg", "\n">>

Placeholders ==
    <<"# Description Data Entry", "\n", "[unit_name]", "[level]", "[structure_plot]",
      "[diagnostic_plot]", "[composition_plot]", "[surfacewater_frequency]">>

\* Fields as an author may also write them: two spaces after the label, a
\* value that reads like a placeholder.
UnitLineWide == <<"**Unit Name:**", " ", " ", "T", "\n">>
LevelLineKey == <<"**Level:**", " ", "[unit_name]", "\n">>
PhotosLineKey == <<"**Photos:**", " ", "[table_structure]", "\n">>

MdFiles ==
    {UnitLine \o LevelLine \o PhotosLine \o Placeholders,
     UnitLineWide \o LevelLine \o PhotosLine \o Placeholders,
     UnitLine \o LevelLineKey \o PhotosLine \o Placeholders,
     UnitLine \o LevelLine \o PhotosLineKey \o Placeholders,
     LevelLine \o PhotosLine \o Placeholders,
     UnitLine \o PhotosLine \o Placeholders,
     UnitLine \o LevelLine \o Placeholders,
     NoFile}

\* Line 208: the raster attribute table.  The raster also holds the value 3,
\* for which the table has no row.
raster_attributes ==
    {[VALUE |-> 1, LABEL |-> <<"T">>], [VALUE |-> 2, LABEL |-> <<"O">>]}

NaN == <<"NaN">>

\* The site visits a database may hold: of the target unit, of another unit,
\* on a pixel without attribute row, without cryptogam scope, too old.
SiteKinds ==
    {[obs_year |-> 2020, perspective |-> "ground", scope_vascular |-> "exhaustive",
      scope_bryophyte |-> "exhaustive", scope_lichen |-> "common species",
      raster_value |-> 1],
     [obs_year |-> 2020, perspective |-> "ground", scope_vascular |-> "exhaustive",
      scope_bryophyte |-> "exhaustive", scope_lichen |-> "common species",
      raster_value |-> 2],
     [obs_year |-> 2020, perspective |-> "ground", scope_vascular |-> "non-trace species",
      scope_bryophyte |-> "non-trace species", scope_lichen |-> "exhaustive",
      raster_value |-> 3],
     [obs_year |-> 2020, perspective |-> "ground", scope_vascular |-> "exhaustive",
      scope_bryophyte |-> "none", scope_lichen |-> "none",
      raster_value |-> 1],
     [obs_year |-> 1999, perspective |-> "ground", scope_vascular |-> "exhaustive",
      scope_bryophyte |-> "exhaustive", scope_lichen |-> "exhaustive",
      raster_value |-> 1],
     [obs_year |-> 2020, perspective |-> "aerial", scope_vascular |-> "exhaustive",
      scope_bryophyte |-> "exhaustive", scope_lichen |-> "exhaustive",
      raster_value |-> 1],
     [obs_year |-> 2020, perspective |-> "ground", scope_vascular |-> "common species",
      scope_bryophyte |-> "exhaustive", scope_lichen |-> "exhaustive",
      raster_value |-> 1]}

\* What the database holds for the site visits: vegetation cover records or
\* none, abiotic top cover (positive, all 0, or no record), physiography
\* and the like (or only nulls), surface water (true everywhere, "rare": true
\* nowhere, or only nulls), and the project, ground cover, structural group
\* cover and soil horizons tables (records for every site visit, or none).
DbKinds ==
    {[vegetation |-> TRUE, abiotic |-> "positive", physiography |-> TRUE, surface_water |-> "true",
      other_tables |-> "all"],
     [vegetation |-> TRUE, abiotic |-> "positive", physiography |-> TRUE, surface_water |-> "true",
      other_tables |-> "none"],
     [vegetation |-> FALSE, abiotic |-> "positive", physiography |-> TRUE, surface_water |-> "true",
      other_tables |-> "all"],
     [vegetation |-> TRUE, abiotic |-> "zero", physiography |-> TRUE, surface_water |-> "true",
      other_tables |-> "all"],
     [vegetation |-> TRUE, abiotic |-> "none", physiography |-> TRUE, surface_water |-> "true",
      other_tables |-> "all"],
     [vegetation |-> TRUE, abiotic |-> "positive", physiography |-> FALSE, surface_water |-> "true",
      other_tables |-> "all"],
     [vegetation |-> TRUE, abiotic |-> "positive", physiography |-> TRUE, surface_water |-> "rare",
      other_tables |-> "all"],
     [vegetation |-> TRUE, abiotic |-> "positive", physiography |-> TRUE, surface_water |-> "null",
      other_tables |-> "all"]}

DbSites == 1 .. NumSites

\* site_visit_code, quoted as line 258 quotes it.
QuotedCodes == <<"'sv1'", "'sv2'", "'sv3'", "'sv4'">>
Quoted(s) == QuotedCodes[s]

\* ---- the statements

\* The filters without the one on the perspective.
PassesSiteFilters_AnyPerspective(k) ==
    /\ k.obs_year >= 2000
    /\ k.scope_vascular \in {"exhaustive", "non-trace species"}

\* Lines 162-171: year, perspective, vascular scope.
PassesSiteFilters(k) ==
    /\ k.obs_year >= 2000
    /\ k.perspective = "ground"
    /\ k.scope_vascular \in {"exhaustive", "non-trace species"}

\* The scopes with the one of a site visit that recorded no cryptogams.
CryptogamScopes_WithNone == {"exhaustive", "non-trace species", "common species", "none"}

\* Lines 174-176 and 179-181.
CryptogamScopes == {"exhaustive", "non-trace species", "common species"}

\* The rows of a frame (a sequence of site visit numbers) that satisfy P.
RECURSIVE SelectRows(_, _)
SelectRows(rows, keep) ==
    IF rows = <<>> THEN <<>>
    ELSE (IF Head(rows) \in keep THEN <<Head(rows)>> ELSE <<>>)
             \o SelectRows(Tail(rows), keep)

RowSet(rows) == {rows[i] : i \in DOMAIN rows}

\* The rows of the site visit query, in the order of their codes.
RECURSIVE AllRows(_)
AllRows(n) == IF n = 0 THEN <<>> ELSE Append(AllRows(n - 1), n)

KeyError == <<"KeyError">>

\* The label looked up as in a dictionary: a missing value raises.
MergeLabel_Lookup(value) ==
    LET hits == {a \in raster_attributes : a.VALUE = value}
    IN  IF hits = {} THEN KeyError ELSE (CHOOSE a \in hits : TRUE).LABEL

\* Lines 210-216: the left join on raster_value = VALUE.  A value without
\* attribute row raises nothing: the row stays, with a null label.
MergeLabel(value) ==
    LET hits == {a \in raster_attributes : a.VALUE = value}
    IN  IF hits = {} THEN NaN ELSE (CHOOSE a \in hits : TRUE).LABEL

\* Line 219: veg_type == unit_name, false of a null label and of a null name.
IsUnit(lab, name) == lab # NaN /\ name # None /\ lab = name

\* Lines 256-259.  ' (' and ', ' are two characters each, so [:-2] removes
\* the last token of the text built so far.
RECURSIVE CodeList(_)
CodeList(rows) ==
    IF rows = <<>> THEN <<>>
    ELSE <<Quoted(Head(rows)), ", ">> \o CodeList(Tail(rows))

InputSql(rows) ==
    LET text == <<"\r\nWHERE site_visit.site_visit_code IN", " (">> \o CodeList(rows)
    IN  SubSeq(text, 1, Len(text) - 1) \o <<");">>

\* Lines 262-265 and the like: the text of the query file, which ends with
\* ';', with every ';' replaced by input_sql.
QueryFile(q) == <<q, ";">>

RECURSIVE Replace(_, _, _)
Replace(text, old, new) ==
    IF text = <<>> THEN <<>>
    ELSE (IF Head(text) = old THEN new ELSE <<Head(text)>>)
             \o Replace(Tail(text), old, new)

\* The query sent as the file holds it.
QueryText_Unfiltered(q) == QueryFile(q)

QueryText(q) ==
    IF q \in FilteredQueries THEN Replace(QueryFile(q), ";", input_sql) ELSE QueryFile(q)

\* The database: a query text is the query, then either ';' or a clause
\* WHERE ... IN ('a', 'b');  Any other text is a syntax error.
WellFormed(text) ==
    \/ Len(text) = 2 /\ text[2] = ";"
    \/ /\ Len(text) >= 5
       /\ text[3] = " ("
       /\ text[Len(text)] = ");"
       /\ \A i \in 4 .. Len(text) - 1 : (text[i] = ", ") <=> (i % 2 = 1)

\* The site visits a well-formed query text selects.
Selected(text) ==
    IF Len(text) = 2 THEN DbSites
    ELSE {s \in DbSites : \E i \in 4 .. Len(text) - 1 : text[i] = Quoted(s)}

\* Lines 266, 456, 463, 491: the queries whose frames are assigned there.
OtherQueries == {"project", "ground_cover", "structural_group_cover", "soil_horizons"}

\* The site visits of the rows the database returns.
QueryRows(q, text) ==
    CASE q = "taxonomy" -> {}
      [] q \in OtherQueries /\ db.other_tables = "none" -> {}
      [] q = "vegetation" /\ ~db.vegetation -> {}
      [] q = "abiotic_top_cover" /\ db.abiotic = "none" -> {}
      [] OTHER -> Selected(text)

\* The quotient of two Python numbers.
DivisionRaises_Python(denominator) == denominator = 0

\* The quotient of two floats, or of a Series and a number: a denominator of
\* 0 raises nothing (lines 607, 709, 717, 878, 886, 894, 1111, ..., 1177).
DivisionRaises(denominator) == FALSE

Init ==
    /\ pc = "parse_markdown"
    /\ text_file \in MdFiles
    /\ label = "none"
    /\ text_output = <<>>
    /\ sites \in [DbSites -> SiteKinds]
    /\ db \in DbKinds
    /\ status = "running"
    /\ error = "none"
    /\ unit_name = <<>>
    /\ level_text = <<>>
    /\ photo_text = <<>>
    /\ connections = 0
    /\ issued = <<>>
    /\ in_flight = "none"
    /\ site_visit_data = <<>>
    /\ bryophyte_sites = {}
    /\ lichen_sites = {}
    /\ veg_type = <<>>
    /\ input_sql = <<>>
    /\ frames = [f \in FrameNames |-> {}]
    /\ aggregated = {}
    /\ zero_division = {}
    /\ files_written = <<>>
    /\ replacements = <<>>
    /\ md_content = <<>>
    /\ surfacewater_frequency = <<>>
    /\ FilterIdle /\ StructureIdle /\ SentinelIdle /\ CalcIdle

otherVars == <<filterVars, structVars, sentinelVars, parseVars, inputVars, calcVars>>

\* The error caught and noted, the run going on to write the report.
Raise_Caught(e) ==
    /\ status' = status
    /\ error' = e
    /\ pc' = "html_output"

\* An uncaught error ends the run where it is.
Raise(e) ==
    /\ status' = "crashed"
    /\ error' = e
    /\ pc' = pc

Continue ==
    /\ pc' = NextPc(pc)
    /\ UNCHANGED errorVars

\* Lines 121-124: the three fields of the data entry file.
ParseFields ==
    /\ status = "running" /\ pc = "parse_markdown"
    /\ LET name == parse_markdown(text_file, "Unit Name")
           level == parse_markdown(text_file, "Level")
           photos == parse_markdown(text_file, "Photos")
       IN  IF FileNotFoundError \in {name, level, photos}
           THEN Raise("FileNotFoundError") /\ UNCHANGED fieldVars
           ELSE /\ unit_name' = name
                /\ level_text' = level
                /\ photo_text' = photos
                /\ Continue
    /\ UNCHANGED <<otherVars, reportVars, queryVars, siteVars, frameVars, files_written>>

\* Line 125: photo_text.split(', '); None has no split.
PhotoList ==
    /\ status = "running" /\ pc = "photo_list"
    /\ IF photo_text = None THEN Raise("AttributeError") ELSE Continue
    /\ UNCHANGED <<otherVars, reportVars, fieldVars, queryVars, siteVars, frameVars, files_written>>

\* Lines 130-132.
Connect ==
    /\ status = "running" /\ pc = "connect"
    /\ connections' = connections + 1
    /\ Continue
    /\ UNCHANGED <<otherVars, reportVars, fieldVars, issued, in_flight, siteVars, frameVars, files_written>>

\* Lines 135-138, 141-144, 262-266, 272-276, 437-441, ..., 487-491: the
\* query is read, receives input_sql and is sent; the call blocks.
IssueQuery ==
    /\ status = "running" /\ pc \in QueryNames
    /\ in_flight = "none"
    /\ issued' = Append(issued, pc)
    /\ in_flight' = pc
    /\ UNCHANGED <<pc, errorVars, connections>>
    /\ UNCHANGED <<otherVars, reportVars, fieldVars, siteVars, frameVars, files_written>>

\* The rows arrive and the script goes on.
QueryReturns ==
    /\ status = "running" /\ in_flight # "none"
    /\ WellFormed(QueryText(in_flight))
    /\ frames' = IF in_flight \in FilteredQueries
                 THEN [frames EXCEPT ![FrameOf(in_flight)]
                                         = QueryRows(in_flight, QueryText(in_flight))]
                 ELSE frames
    /\ site_visit_data' = IF in_flight = "site_visit"
                          THEN AllRows(NumSites)
                          ELSE site_visit_data
    /\ in_flight' = "none"
    /\ Continue
    /\ UNCHANGED <<connections, issued>>
    /\ UNCHANGED <<bryophyte_sites, lichen_sites, veg_type, input_sql>>
    /\ UNCHANGED <<otherVars, reportVars, fieldVars, aggregated, zero_division, files_written>>

\* The database rejects the query (a syntax error, a lost connection): the
\* error is not caught and the query is not sent again.
QueryFails ==
    /\ status = "running" /\ in_flight # "none"
    /\ in_flight' = "none"
    /\ Raise("DatabaseError")
    /\ UNCHANGED <<connections, issued>>
    /\ UNCHANGED <<otherVars, reportVars, fieldVars, siteVars, frameVars, files_written>>

\* Lines 162-181.
FilterSiteVisits ==
    /\ status = "running" /\ pc = "filter_site_visits"
    /\ LET kept == SelectRows(site_visit_data,
                              {s \in DbSites : PassesSiteFilters(sites[s])})
       IN  /\ site_visit_data' = kept
           /\ bryophyte_sites' =
                  {s \in RowSet(kept) : sites[s].scope_bryophyte \in CryptogamScopes}
           /\ lichen_sites' =
                  {s \in RowSet(kept) : sites[s].scope_lichen \in CryptogamScopes}
    /\ Continue
    /\ UNCHANGED <<veg_type, input_sql>>
    /\ UNCHANGED <<otherVars, reportVars, fieldVars, queryVars, frameVars, files_written>>

\* Lines 183-216: the raster values at the points, and their labels.
MergeAttributes ==
    /\ status = "running" /\ pc = "merge_attributes"
    /\ LET labels == [s \in RowSet(site_visit_data) |-> MergeLabel(sites[s].raster_value)]
       IN  IF \E s \in DOMAIN labels : labels[s] = KeyError
           THEN Raise("KeyError") /\ UNCHANGED veg_type
           ELSE veg_type' = labels /\ Continue
    /\ UNCHANGED <<site_visit_data, bryophyte_sites, lichen_sites, input_sql>>
    /\ UNCHANGED <<otherVars, reportVars, fieldVars, queryVars, frameVars, files_written>>

\* Lines 218-226.
FilterUnit ==
    /\ status = "running" /\ pc = "filter_unit"
    /\ site_visit_data' =
           SelectRows(site_visit_data,
                      {s \in DOMAIN veg_type : IsUnit(veg_type[s], unit_name)})
    /\ Continue
    /\ UNCHANGED <<bryophyte_sites, lichen_sites, veg_type, input_sql>>
    /\ UNCHANGED <<otherVars, reportVars, fieldVars, queryVars, frameVars, files_written>>

\* Lines 255-259.
BuildInputSql ==
    /\ status = "running" /\ pc = "input_sql"
    /\ input_sql' = InputSql(site_visit_data)
    /\ Continue
    /\ UNCHANGED <<site_visit_data, bryophyte_sites, lichen_sites, veg_type>>
    /\ UNCHANGED <<otherVars, reportVars, fieldVars, queryVars, frameVars, files_written>>

\* Lines 278-431: the vascular, bryophyte and lichen records.
VegetationData ==
    /\ status = "running" /\ pc = "vegetation_data"
    /\ frames' = [frames EXCEPT
                     !["vascular_data"] = frames["vegetation_data"],
                     !["bryophyte_data"] = frames["vegetation_data"] \cap bryophyte_sites,
                     !["lichen_data"] = frames["vegetation_data"] \cap lichen_sites]
    /\ Continue
    /\ UNCHANGED <<aggregated, zero_division>>
    /\ UNCHANGED <<otherVars, reportVars, fieldVars, queryVars, siteVars, files_written>>

\* Line 10 and lines 41-42.
unit_code == "29_ArcticBrownMossSedgePeatlandMinerotrophic"
plot_folder == "02_plot_html"
output_folder == "03_description_html"

\* os.path.join(folder, unit_code + suffix)
OutputFile(folder, suffix) == [folder |-> folder, name |-> <<unit_code, suffix>>]

\* Line 606: the sum of the mean abiotic covers.
AbioticSum ==
    IF db.abiotic = "positive" /\ frames["abiotic_data"] # {} THEN 100 ELSE 0

\* The number of distinct site visits of a frame (lines 709, 717, 878, 886, 894).
SiteVisitCount(f) == Cardinality(frames[f])

\* The number of non-null records of a categorical column (lines 1111, ..., 1166).
NonNullCount(present) ==
    IF present THEN Cardinality(frames["environment_data"]) ELSE 0

\* A group of statements that computes statistics: it reads the frames
\* `reads`, divides by the `denominators` (pairs of a name and a value) and
\* pivots the frames `pivots`.  What pivot_table and agg do with a frame
\* without rows is the library's affair: they return an empty table or raise.
Statistic(reads, denominators, pivots) ==
    /\ aggregated' = aggregated \cup UNION {frames[f] : f \in reads}
    /\ zero_division' = zero_division \cup {d[1] : d \in {x \in denominators : x[2] = 0}}
    /\ IF \E d \in denominators : DivisionRaises(d[2])
       THEN Raise("ZeroDivisionError")
       ELSE \/ Continue
            \/ (\E f \in pivots : frames[f] = {}) /\ Raise("ValueError")
    /\ UNCHANGED frames

CoverFrames == {"vascular_data", "bryophyte_data", "lichen_data"}

\* Lines 496-664.
Structure ==
    /\ status = "running" /\ pc = "structure"
    /\ Statistic(CoverFrames \cup {"shrub_data", "tussock_data", "abiotic_data"},
                 {<<"abiotic_adjustment", AbioticSum>>},
                 CoverFrames)
    /\ UNCHANGED <<otherVars, reportVars, fieldVars, queryVars, siteVars, files_written>>

\* Lines 673-863.
Diagnostic ==
    /\ status = "running" /\ pc = "diagnostic"
    /\ Statistic({"vascular_data", "bryophyte_data"},
                 {<<"constancy_diagnostic_vasc", SiteVisitCount("vascular_data")>>,
                  <<"constancy_diagnostic_bryo", SiteVisitCount("bryophyte_data")>>},
                 {"vascular_data", "bryophyte_data"})
    /\ UNCHANGED <<otherVars, reportVars, fieldVars, queryVars, siteVars, files_written>>

\* Lines 872-1099.
Composition ==
    /\ status = "running" /\ pc = "composition"
    /\ Statistic(CoverFrames,
                 {<<"constancy_vascular", SiteVisitCount("vascular_data")>>,
                  <<"constancy_bryophyte", SiteVisitCount("bryophyte_data")>>,
                  <<"constancy_lichen", SiteVisitCount("lichen_data")>>},
                 CoverFrames)
    /\ UNCHANGED <<otherVars, reportVars, fieldVars, queryVars, siteVars, files_written>>

\* Lines 666-668, 865-867, 1101-1103: the chart of the group before.
WriteChart(p, suffix) ==
    /\ status = "running" /\ pc = p
    /\ files_written' = Append(files_written, OutputFile(plot_folder, suffix))
    /\ Continue
    /\ UNCHANGED <<otherVars, reportVars, fieldVars, queryVars, siteVars, frameVars>>

StructureOutput == WriteChart("structure_output", "_Structure.html")

DiagnosticOutput == WriteChart("diagnostic_output", "_DiagnosticSets.html")

CompositionOutput == WriteChart("composition_output", "_SpeciesComposition.html")

\* Lines 1108-1172: physiography, geomorphology, macro- and microtopography,
\* moisture regime, restrictive type.
EnvironmentFrequency ==
    /\ status = "running" /\ pc = "environment_frequency"
    /\ Statistic({"environment_data"},
                 {<<f, NonNullCount(db.physiography)>> :
                      f \in {"physiography_frequency", "geomorph_frequency",
                             "macrotopo_frequency", "microtopo_frequency",
                             "moisture_frequency", "restrict_frequency"}},
                 {})
    /\ UNCHANGED <<otherVars, reportVars, fieldVars, queryVars, siteVars, files_written>>

\* The row of True kept whatever its frequency.
TrueRowKept_AnyFrequency(trues, count) == trues > 0

\* Lines 1175-1177: value_counts() has a row for True when some record is
\* true, and the filter keeps it when (count / len) * 100 >= 20.
TrueRowKept(trues, count) == trues > 0 /\ trues * 100 >= 20 * count

\* Line 1178: str(round(frequency, 1)) + '%'; the frequency is
\* trues / count * 100, its text has one decimal.
FigureText(trues, count) ==
    LET tenths == RoundHalfEven(trues * 1000, count)
    IN  ToString(tenths \div 10) \o "." \o ToString(tenths % 10) \o "%"

\* Lines 1174-1179: the frequency of True, looked up with .at[True, ...]:
\* a KeyError when no row is left for True (none at all, or under 20 %).
\* The surface water records of the database are all true or all false.
SurfaceWaterFrequency ==
    /\ status = "running" /\ pc = "surfacewater_frequency"
    /\ aggregated' = aggregated \cup frames["environment_data"]
    /\ LET count == NonNullCount(db.surface_water # "null")
           trues == IF db.surface_water = "true" THEN count ELSE 0
       IN  /\ zero_division' = zero_division
                  \cup (IF count = 0 THEN {"surfacewater_frequency"} ELSE {})
           /\ IF DivisionRaises(count)
              THEN Raise("ZeroDivisionError") /\ UNCHANGED surfacewater_frequency
              ELSE IF TrueRowKept(trues, count)
              THEN surfacewater_frequency' = <<FigureText(trues, count)>> /\ Continue
              ELSE Raise("KeyError") /\ UNCHANGED surfacewater_frequency
    /\ UNCHANGED <<frames, replacements, md_content>>
    /\ UNCHANGED <<otherVars, fieldVars, queryVars, siteVars, files_written>>

\* Lines 1181-1331: elevation and slope of the selected site visits, the
\* depths, pH and conductivity.
EnvironmentStatistics ==
    /\ status = "running" /\ pc = "environment_statistics"
    /\ aggregated' = aggregated \cup RowSet(site_visit_data)
                         \cup frames["environment_data"] \cup frames["soilmetrics_data"]
    /\ Continue
    /\ UNCHANGED <<frames, zero_division>>
    /\ UNCHANGED <<otherVars, reportVars, fieldVars, queryVars, siteVars, files_written>>

\* Line 1340: one linked image for every entry of photo_list, the Photos
\* text split at ', '.
RECURSIVE PhotoLinks(_)
PhotoLinks(photos) ==
    IF photos = <<>> THEN <<>>
    ELSE (IF Head(photos) = ", " THEN <<>> ELSE <<"<a href=", Head(photos), ">">>)
             \o PhotoLinks(Tail(photos))

\* Lines 1340-1344.
photo_html(photos) == <<"<p><b>Photos</b></p>">> \o PhotoLinks(photos)

\* Line 1347.
url_precursor == "https://accs.uaa.alaska.edu/files/map-classes/plots/"

\* The iframe with the whole path of the chart file behind the prefix.
Iframe_WholePath(output) ==
    <<"<iframe src=", url_precursor, output.folder>> \o output.name \o <<">">>

\* Lines 1348-1371: the src of the iframe is url_precursor followed by
\* os.path.split(output)[1], the name of the chart file.
Iframe(output) == <<"<iframe src=", url_precursor>> \o output.name \o <<">">>

\* str.lower(), token by token.
LowerToken(t) ==
    CASE t = "Alliance" -> "alliance"
      [] t = "A" -> "a"
      [] OTHER -> t

Lower(text) == [i \in DOMAIN text |-> LowerToken(text[i])]

\* Lines 1373-1374: the f-strings put one space between label and value.
title_replace(name) == <<"**Unit Name:**", " ">> \o name
photo_replace(photos) == <<"**Photos:**", " ">> \o photos

\* The structure table left out when no structural group was recorded.
ReplacementMap_StructuralGroups(name, level, photos) ==
    << <<<<"# Description Data Entry">>, <<"# ">> \o name>>,
       <<title_replace(name), <<>>>>,
       <<<<"[unit_name]">>, name>>,
       <<<<"[level]">>, Lower(level)>>,
       <<photo_replace(photos), photo_html(photos)>>,
       <<<<"[table_structure]">>,
         IF frames["structural_data"] = {} THEN <<>> ELSE <<"<table structure>">>>>,
       <<<<"[structure_plot]">>, Iframe(OutputFile(plot_folder, "_Structure.html"))>>,
       <<<<"[diagnostic_plot]">>, Iframe(OutputFile(plot_folder, "_DiagnosticSets.html"))>>,
       <<<<"[table_composition]">>, <<"<table composition>">>>>,
       <<<<"[composition_plot]">>,
         Iframe(OutputFile(plot_folder, "_SpeciesComposition.html"))>>,
       <<<<"[physiography_text]">>, <<"physiography">>>>,
       <<<<"[geomorph_text]">>, <<"geomorphology">>>>,
       <<<<"[macrotopo_text]">>, <<"macrotopography">>>>,
       <<<<"[microtopo_text]">>, <<"microtopography">>>>,
       <<<<"[moisture_text]">>, <<"moisture">>>>,
       <<<<"[restrict_text]">>, <<"restrictive type">>>>,
       <<<<"[surfacewater_frequency]">>, surfacewater_frequency>>,
       <<<<"[table_environment]">>, <<"<table environment>">>>> >>

\* Lines 1375-1401: the keys with their values, in insertion order.
ReplacementMap(name, level, photos) ==
    << <<<<"# Description Data Entry">>, <<"# ">> \o name>>,
       <<title_replace(name), <<>>>>,
       <<<<"[unit_name]">>, name>>,
       <<<<"[level]">>, Lower(level)>>,
       <<photo_replace(photos), photo_html(photos)>>,
       <<<<"[table_structure]">>, <<"<table structure>">>>>,
       <<<<"[structure_plot]">>, Iframe(OutputFile(plot_folder, "_Structure.html"))>>,
       <<<<"[diagnostic_plot]">>, Iframe(OutputFile(plot_folder, "_DiagnosticSets.html"))>>,
       <<<<"[table_composition]">>, <<"<table composition>">>>>,
       <<<<"[composition_plot]">>,
         Iframe(OutputFile(plot_folder, "_SpeciesComposition.html"))>>,
       <<<<"[physiography_text]">>, <<"physiography">>>>,
       <<<<"[geomorph_text]">>, <<"geomorphology">>>>,
       <<<<"[macrotopo_text]">>, <<"macrotopography">>>>,
       <<<<"[microtopo_text]">>, <<"microtopography">>>>,
       <<<<"[moisture_text]">>, <<"moisture">>>>,
       <<<<"[restrict_text]">>, <<"restrictive type">>>>,
       <<<<"[surfacewater_frequency]">>, surfacewater_frequency>>,
       <<<<"[table_environment]">>, <<"<table environment>">>>> >>

\* str.replace(key, value): every occurrence, left to right, not overlapping,
\* and never looking again at the text it has put in.
RECURSIVE StrReplace(_, _, _)
StrReplace(text, key, value) ==
    IF Len(text) < Len(key) \/ key = <<>> THEN text
    ELSE IF SubSeq(text, 1, Len(key)) = key
         THEN value \o StrReplace(SubSeq(text, Len(key) + 1, Len(text)), key, value)
         ELSE <<Head(text)>> \o StrReplace(Tail(text), key, value)

\* Lines 1408-1409: the keys applied one after another, in the map's order.
RECURSIVE ReplaceAll(_, _)
ReplaceAll(content, map) ==
    IF map = <<>> THEN content
    ELSE ReplaceAll(StrReplace(content, Head(map)[1], Head(map)[2]), Tail(map))

\* Lines 1336-1401: level_text.lower(); None has no lower.
Replacements ==
    /\ status = "running" /\ pc = "replacements"
    /\ IF level_text = None
       THEN Raise("AttributeError") /\ UNCHANGED replacements
       ELSE /\ replacements' = ReplacementMap(unit_name, level_text, photo_text)
            /\ Continue
    /\ UNCHANGED <<md_content, surfacewater_frequency>>
    /\ UNCHANGED <<otherVars, fieldVars, queryVars, siteVars, frameVars, files_written>>

\* Lines 1403-1619: the template is read again, filled, rendered, written.
HtmlOutput ==
    /\ status = "running" /\ pc = "html_output"
    /\ md_content' = ReplaceAll(OpenRead(text_file), replacements)
    /\ files_written' = Append(files_written, OutputFile(output_folder, ".html"))
    /\ status' = "done"
    /\ pc' = NextPc(pc)
    /\ UNCHANGED <<error, replacements, surfacewater_frequency>>
    /\ UNCHANGED <<otherVars, fieldVars, queryVars, siteVars, frameVars>>

Next ==
    \/ ParseFields
    \/ PhotoList
    \/ Connect
    \/ IssueQuery
    \/ QueryReturns
    \/ QueryFails
    \/ FilterSiteVisits
    \/ MergeAttributes
    \/ FilterUnit
    \/ BuildInputSql
    \/ VegetationData
    \/ Structure
    \/ StructureOutput
    \/ Diagnostic
    \/ DiagnosticOutput
    \/ Composition
    \/ CompositionOutput
    \/ EnvironmentFrequency
    \/ SurfaceWaterFrequency
    \/ EnvironmentStatistics
    \/ Replacements
    \/ HtmlOutput

Spec == Init /\ [][Next]_vars

\* The place of a statement group in the script; "end" follows the last.
Position(p) ==
    IF p = "end" THEN Len(Program) + 1
    ELSE CHOOSE k \in DOMAIN Program : Program[k] = p

IsPrefix(a, b) == Len(a) <= Len(b) /\ SubSeq(b, 1, Len(a)) = a

(***************************************************************************)
(* C3.  Every record that reaches a statistic, a table or a chart belongs  *)
(* to a site visit whose raster label is the target unit, whatever the     *)
(* database and the rasters hold.                                          *)
(***************************************************************************)
C3_InTargetUnit(s) ==
    \E a \in raster_attributes : a.VALUE = sites[s].raster_value /\ a.LABEL = unit_name

C3_OnlyTargetUnit ==
    \A s \in aggregated \cup UNION {frames[f] : f \in FrameNames} : C3_InTargetUnit(s)

\* A finished run whose statistics had records, with a site visit of another
\* unit among the bryophyte sites and one on a pixel without attribute row.
C3_Witness ==
    /\ status = "done"
    /\ aggregated # {}
    /\ \E s \in bryophyte_sites : ~C3_InTargetUnit(s)
    /\ \E s \in DbSites : s \notin aggregated

(***************************************************************************)
(* C7.  Without the data entry file every parse_markdown call returns null *)
(* and raises nothing; the run then ends with an uncaught error at the     *)
(* split of the Photos text, before the database connection is opened,     *)
(* before any query and before any output file.                            *)
(***************************************************************************)
C7_MissingFile ==
    text_file = NoFile =>
        /\ pc \in {"parse_markdown", "photo_list"}
        /\ pc = "photo_list" =>
              unit_name = None /\ level_text = None /\ photo_text = None
        /\ status = "crashed" => pc = "photo_list" /\ error = "AttributeError"
        /\ status = "running" => ENABLED Next
        /\ status # "done"
        /\ connections = 0 /\ issued = <<>> /\ files_written = <<>>

C7_Witness ==
    /\ text_file = NoFile
    /\ status = "crashed"
    /\ pc = "photo_list"
    /\ photo_text = None

(***************************************************************************)
(* C8 as claimed.  A zero denominator of a frequency, constancy or         *)
(* rescaling calculation ends the run with an uncaught error: no report is *)
(* ever written by a run that divided by zero.                             *)
(***************************************************************************)
C8_ZeroDenominatorEndsRun ==
    status = "done" => zero_division = {}

(***************************************************************************)
(* C8 as amended.  A zero denominator raises nothing: the operands are     *)
(* numpy floats or pandas Series, the quotient is inf, NaN or empty, and   *)
(* the run goes on to the next statement.  A run ends in the statement     *)
(* group of such a calculation only for another reason: the lookup of the  *)
(* True row of the surface water frequencies (KeyError), or a cover frame  *)
(* without any row.                                                        *)
(***************************************************************************)
C8_ZeroDenominatorRaisesNothing ==
    /\ error # "ZeroDivisionError"
    /\ (status = "crashed" /\ pc = "environment_frequency") => FALSE
    /\ (status = "crashed" /\ pc = "surfacewater_frequency") => error = "KeyError"
    /\ (status = "crashed" /\ pc \in {"structure", "diagnostic", "composition"})
           => \E f \in CoverFrames : frames[f] = {}
    /\ (zero_division # {} /\ status = "running" /\ pc # "html_output") => ENABLED Next

\* A report written by a run that divided by the abiotic sum 0 and by the
\* number 0 of non-null physiography records.
C8_Witness ==
    /\ status = "done"
    /\ "abiotic_adjustment" \in zero_division \/ "physiography_frequency" \in zero_division
    /\ Len(files_written) = 4

(***************************************************************************)
(* C9 as claimed.  A sampled raster value without attribute row ends the   *)
(* run with an uncaught error: the site visit is not silently dropped and  *)
(* no report is produced.                                                  *)
(***************************************************************************)
C9_UnmatchedValueEndsRun ==
    status = "done" => \A s \in DOMAIN veg_type : veg_type[s] # NaN

(***************************************************************************)
(* C9 as amended.  A sampled raster value without attribute row raises     *)
(* nothing: the left join gives the site visit a null label, the filter on *)
(* the unit name drops it, and the run goes on with the other site visits. *)
(***************************************************************************)
C9_UnmatchedValueDropped ==
    /\ ~(status = "crashed" /\ pc = "merge_attributes")
    /\ Position(pc) > Position("merge_attributes") =>
          \A s \in DOMAIN veg_type :
              (veg_type[s] = NaN)
                  <=> ~\E a \in raster_attributes : a.VALUE = sites[s].raster_value
    /\ Position(pc) > Position("filter_unit") =>
          \A s \in RowSet(site_visit_data) : veg_type[s] # NaN

C9_Witness ==
    /\ status = "done"
    /\ \E s \in DOMAIN veg_type : veg_type[s] = NaN /\ s \notin RowSet(site_visit_data)

(***************************************************************************)
(* C10 as claimed, in its first part.  Every run opens exactly one         *)
(* database connection.                                                    *)
(***************************************************************************)
C10_ExactlyOneConnection ==
    status \in {"crashed", "done"} => connections = 1

(***************************************************************************)
(* C10 as amended.  A run opens at most one database connection: none when *)
(* it ends before line 132, exactly one otherwise.  Every query is sent on *)
(* that connection, at most once, in the order taxonomy, site visit,       *)
(* project, vegetation, abiotic top cover, whole tussock cover, ground     *)
(* cover, structural group cover, shrub structure, environment, soil       *)
(* metrics, soil horizons; a query is sent only when the previous one has  *)
(* returned, and every query after the first two only when input_sql has   *)
(* been built.  A run that finishes has sent all twelve.                   *)
(***************************************************************************)
C10_Order ==
    <<"taxonomy", "site_visit", "project", "vegetation", "abiotic_top_cover",
      "whole_tussock_cover", "ground_cover", "structural_group_cover",
      "shrub_structure", "environment", "soil_metrics", "soil_horizons">>

C10_State ==
    /\ connections <= 1
    /\ Position(pc) > Position("connect") => connections = 1
    /\ issued # <<>> => connections = 1
    /\ IsPrefix(issued, C10_Order)
    /\ in_flight # "none" => issued # <<>> /\ issued[Len(issued)] = in_flight
    /\ Len(issued) > 2 => input_sql # <<>>
    /\ status = "done" => issued = C10_Order

C10_Step ==
    issued' # issued =>
        /\ in_flight = "none"
        /\ in_flight' # "none"
        /\ issued' = Append(issued, in_flight')

C10_OneConnectionQueriesInOrder == []C10_State /\ [][C10_Step]_vars

\* The last query is in flight, every earlier one has returned.
C10_Witness ==
    /\ in_flight = "soil_horizons"
    /\ Len(issued) = 12
    /\ connections = 1

(***************************************************************************)
(* C11.  A run that completes has written exactly four files, in this      *)
(* order: the structure chart, the diagnostic sets chart, the species      *)
(* composition chart, each named unit_code plus its suffix in the plot     *)
(* folder, and last the report unit_code.html in the output folder.  At    *)
(* every moment the files written are a prefix of that list, so the report *)
(* is written after the three charts.  Every iframe of the report refers   *)
(* to the URL prefix followed by the name of a chart file written, and     *)
(* every chart file written is referred to.                                *)
(***************************************************************************)
C11_Files ==
    <<[folder |-> "02_plot_html", name |-> <<unit_code, "_Structure.html">>],
      [folder |-> "02_plot_html", name |-> <<unit_code, "_DiagnosticSets.html">>],
      [folder |-> "02_plot_html", name |-> <<unit_code, "_SpeciesComposition.html">>],
      [folder |-> "03_description_html", name |-> <<unit_code, ".html">>]>>

C11_Sources(content) ==
    {SubSeq(content, i + 1, i + 3) :
        i \in {j \in 1 .. Len(content) - 3 : content[j] = "<iframe src="}}

MaxRecords == 2     \* rows the vegetation query returns

SiteVisitCodes == {1, 2}

\* The rows of the taxonomy query that matter here.
taxa_data ==
    {[taxon_name |-> "Carex aquatilis", taxon_genus |-> "Carex",
      taxon_category |-> "monocot"],
     [taxon_name |-> "Salix pulchra", taxon_genus |-> "Salix",
      taxon_category |-> "eudicot"],
     [taxon_name |-> "Sphagnum fuscum", taxon_genus |-> "Sphagnum",
      taxon_category |-> "moss"],
     [taxon_name |-> "Sphagnum teres", taxon_genus |-> "Sphagnum",
      taxon_category |-> "moss"],
     [taxon_name |-> "Sphagnum", taxon_genus |-> "Sphagnum",
      taxon_category |-> "moss"],
     [taxon_name |-> "Peltigera aphthosa", taxon_genus |-> "Peltigera",
      taxon_category |-> "lichen"],
     [taxon_name |-> "Peltigera", taxon_genus |-> "Peltigera",
      taxon_category |-> "lichen"],
     [taxon_name |-> "Marchantia polymorpha", taxon_genus |-> "Marchantia",
      taxon_category |-> "liverwort"],
     [taxon_name |-> "Masonhalea richardsonii", taxon_genus |-> "Masonhalea",
      taxon_category |-> "lichen"],
     [taxon_name |-> "Sphagnum moss", taxon_genus |-> "Sphagnum moss",
      taxon_category |-> "functional group"],
     [taxon_name |-> "moss", taxon_genus |-> "moss",
      taxon_category |-> "unknown"],
     [taxon_name |-> "lichen", taxon_genus |-> "lichen",
      taxon_category |-> "unknown"]}

\* Lines 292-296, 372-376, 422-426: the left join with taxa_data.
Taxon(name) == CHOOSE t \in taxa_data : t.taxon_name = name

RecordedNames ==
    <<"Carex aquatilis", "Sphagnum fuscum", "Sphagnum teres", "Peltigera aphthosa">>

CoverTypes == <<"absolute foliar cover", "relative cover">>

CoverRecords ==
    [site_visit_code : SiteVisitCodes,
     name_accepted : {RecordedNames[i] : i \in DOMAIN RecordedNames},
     cover_percent : {-999, 10},
     cover_type : {CoverTypes[i] : i \in DOMAIN CoverTypes},
     dead_status : BOOLEAN]

\* The order of the rows plays no part in any statement; the frames are
\* taken with their rows in one order.
RecordRank(r) ==
    LET n == CHOOSE i \in DOMAIN RecordedNames : RecordedNames[i] = r.name_accepted
        t == CHOOSE i \in DOMAIN CoverTypes : CoverTypes[i] = r.cover_type
    IN  (((r.site_visit_code * 8 + n) * 4 + t) * 2
            + (IF r.dead_status THEN 1 ELSE 0)) * 2
            + (IF r.cover_percent = -999 THEN 1 ELSE 0)

RECURSIVE RecordLists(_)
RecordLists(n) ==
    IF n = 0 THEN {<<>>}
    ELSE LET shorter == RecordLists(n - 1)
         IN  shorter \cup
             UNION {{Append(l, r) :
                        r \in {x \in CoverRecords :
                                  l = <<>> \/ RecordRank(l[Len(l)]) <= RecordRank(x)}} :
                    l \in {x \in shorter : Len(x) = n - 1}}

\* The schema spreadsheet: one with each constituent in one set, one with a
\* set of vascular and bryophyte constituents, one with a constituent of two
\* sets.
Schemas ==
    {<<[diagnostic_set |-> "Sedges", constituents |-> "Carex aquatilis"],
       [diagnostic_set |-> "Peat mosses", constituents |-> "Sphagnum"]>>,
     <<[diagnostic_set |-> "Wet", constituents |-> "Carex aquatilis"],
       [diagnostic_set |-> "Wet", constituents |-> "Sphagnum"]>>,
     <<[diagnostic_set |-> "Sedges", constituents |-> "Carex aquatilis"],
       [diagnostic_set |-> "Wet", constituents |-> "Carex aquatilis"]>>}

Rows(frame) == {frame[i] : i \in DOMAIN frame}

RECURSIVE SumCover(_)
SumCover(frame) ==
    IF frame = <<>> THEN 0 ELSE Head(frame).cover_percent + SumCover(Tail(frame))

RECURSIVE SetToSeq(_)
SetToSeq(S) ==
    IF S = {} THEN <<>>
    ELSE LET x == CHOOSE y \in S : TRUE IN <<x>> \o SetToSeq(S \ {x})

\* Lines 279-281: .replace(-999, 0)
ReplaceAbsent(frame) ==
    [i \in DOMAIN frame |->
        IF frame[i].cover_percent = -999
        THEN [frame[i] EXCEPT !.cover_percent = 0]
        ELSE frame[i]]

\* The filter on the cover type alone.
KeepVegetation_AnyStatus(r) ==
    r.cover_type \in {"absolute foliar cover", "absolute canopy cover"}

\* Lines 284-289: absolute cover, live vegetation.
KeepVegetation(r) ==
    /\ r.cover_type \in {"absolute foliar cover", "absolute canopy cover"}
    /\ r.dead_status = FALSE

\* Lines 309-311.
IsVascular(r) ==
    Taxon(r.name_accepted).taxon_category
        \in {"monocot", "eudicot", "fern", "gymnosperm", "horsetail", "lycophyte"}

\* Lines 314-330.
IsBryophyte(r) ==
    LET category == Taxon(r.name_accepted).taxon_category
    IN  /\ r.site_visit_code \in bryophyte_sites
        /\ category \in {"liverwort", "moss", "hornwort", "functional group", "unknown"}
        /\ \/ category # "functional group"
           \/ /\ category # "functional group"
              /\ r.name_accepted \in
                    {"non-thalloid liverwort", "thalloid liverwort", "feathermoss (other)",
                     "feathermoss (N-fixing)", "Sphagnum moss", "turf moss"}
           \/ /\ category # "unknown"
              /\ r.name_accepted \in {"liverwort", "moss"}

\* Lines 383-397.
IsLichen(r) ==
    LET category == Taxon(r.name_accepted).taxon_category
    IN  /\ r.site_visit_code \in lichen_sites
        /\ category = "lichen"
        /\ \/ category # "functional group"
           \/ /\ category # "functional group"
              /\ r.name_accepted \in
                    {"arboreal lichen", "crustose lichen (orange)",
                     "crustose lichen (non-orange)", "foliose lichen (other)",
                     "foliose lichen (N-fixing)", "forage lichen",
                     "fruticose lichen (N-fixing)", "fruticose lichen (other)"}
           \/ /\ category # "unknown"
              /\ r.name_accepted \in
                    {"lichen", "crustose lichen", "fruticose lichen", "foliose lichen"}

\* Lines 334-365 and 401-417: the genera whose taxa are merged under the
\* name of the genus.
BryophyteGenera ==
    {"Brachythecium", "Calliergon", "Cinclidium", "Dicranum", "Drepanocladus",
     "Hamatocaulis", "Loeskypnum", "Meesia", "Polytrichum", "Pseudocalliergon",
     "Racomitrium", "Rhizomnium", "Sarmentypnum", "Scorpidium", "Sphagnum"}

LichenGenera ==
    {"Bryoria", "Dactylina", "Lobaria", "Masonhalea", "Nephroma", "Peltigera",
     "Sphaerophorus", "Stereocaulon", "Thamnolia"}

\* The name np.where puts in for a genus of the list: the genus, but for
\* Masonhalea the species (lines 405-406).
AggregateName(genus) ==
    IF genus = "Masonhalea" THEN "Masonhalea richardsonii" ELSE genus

Aggregate_Genus(frame, genera) ==
    [i \in DOMAIN frame |->
        LET genus == Taxon(frame[i].name_accepted).taxon_genus
        IN  IF genus \in genera
            THEN [frame[i] EXCEPT !.name_accepted = AggregateName(genus)]
            ELSE frame[i]]

\* The groups with the cover of their first row in place of the sum.
GroupSum_First(frame) ==
    LET keys == {<<r.site_visit_code, r.name_accepted>> : r \in Rows(frame)}
    IN  SetToSeq({[site_visit_code |-> k[1],
                   name_accepted |-> k[2],
                   cover_percent |->
                       Head(SelectSeq(frame,
                           LAMBDA r : <<r.site_visit_code, r.name_accepted>> = k)).cover_percent] :
                  k \in keys})

\* Lines 368-371, 420-421: groupby(['site_visit_code', 'name_accepted'])
\* ['cover_percent'].sum()
GroupSum(frame) ==
    LET keys == {<<r.site_visit_code, r.name_accepted>> : r \in Rows(frame)}
    IN  SetToSeq({[site_visit_code |-> k[1],
                   name_accepted |-> k[2],
                   cover_percent |->
                       SumCover(SelectSeq(frame,
                           LAMBDA r : <<r.site_visit_code, r.name_accepted>> = k))] :
                  k \in keys})

\* The join without its condition: every row with every row of the schema.
RECURSIVE MergeSchema_Cross(_, _)
MergeSchema_Cross(frame, schema) ==
    IF frame = <<>> THEN <<>>
    ELSE LET r == Head(frame)
         IN  [j \in DOMAIN schema |->
                 [site_visit_code |-> r.site_visit_code,
                  name_accepted |-> schema[j].diagnostic_set,
                  constituents |-> r.name_accepted,
                  cover_percent |-> r.cover_percent]]
             \o MergeSchema_Cross(Tail(frame), schema)

\* Lines 679-683, 691-695: the inner join on name_accepted = constituents.
RECURSIVE MergeSchema(_, _)
MergeSchema(frame, schema) ==
    IF frame = <<>> THEN <<>>
    ELSE LET r == Head(frame)
             hits == SelectSeq(schema, LAMBDA x : x.constituents = r.name_accepted)
         IN  [j \in DOMAIN hits |->
                 [site_visit_code |-> r.site_visit_code,
                  name_accepted |-> hits[j].diagnostic_set,
                  constituents |-> r.name_accepted,
                  cover_percent |-> r.cover_percent]]
             \o MergeSchema(Tail(frame), schema)

\* Lines 703-709 and the like: value_counts() counts the rows of each name;
\* the divisor is the number of distinct site visits of the frame.  The
\* constancy is held in hundredths of a percent.
ConstancyTable(frame) ==
    LET site_visits == {r.site_visit_code : r \in Rows(frame)}
    IN  {[name |-> n,
          occurrences |-> Len(SelectSeq(frame, LAMBDA r : r.name_accepted = n)),
          constancy |->
              (Len(SelectSeq(frame, LAMBDA r : r.name_accepted = n)) * 10000)
                  \div Cardinality(site_visits)] :
         n \in {r.name_accepted : r \in Rows(frame)}}

VegetationInit ==
    /\ pc = "cover_percent"
    /\ vegetation_rows \in RecordLists(MaxRecords)
    /\ schema_data \in Schemas
    /\ bryophyte_sites \in {SiteVisitCodes, {2}}
    /\ lichen_sites = SiteVisitCodes
    /\ vegetation_data = <<>>
    /\ vascular_data = <<>>
    /\ bryophyte_data = <<>>
    /\ lichen_data = <<>>
    /\ diagnostic_vascular = <<>>
    /\ diagnostic_bryophyte = <<>>
    /\ constancy_tables = <<>>
    /\ FilterIdle /\ StructureIdle /\ SentinelIdle /\ ParseIdle /\ RunRestIdle
    /\ QuantileIdle /\ InjectIdle /\ TableIdle /\ EnvIdle

vegetationOthers ==
    <<filterVars, structVars, sentinelVars, parseVars, runVars, quantVars, injectVars,
      tableVars, envVars>>

\* Lines 279-281.
VegetationCover ==
    /\ pc = "cover_percent"
    /\ vegetation_data' = ReplaceAbsent(vegetation_rows)
    /\ pc' = "absolute_live"
    /\ UNCHANGED <<vegetation_rows, schema_data, vascular_data, bryophyte_data, lichen_data,
                   diagnostic_vascular, diagnostic_bryophyte, constancy_tables>>
    /\ UNCHANGED vegetationOthers

\* Lines 284-289.
AbsoluteLive ==
    /\ pc = "absolute_live"
    /\ vegetation_data' = SelectSeq(vegetation_data, KeepVegetation)
    /\ pc' = "taxon_groups"
    /\ UNCHANGED <<vegetation_rows, schema_data, vascular_data, bryophyte_data, lichen_data,
                   diagnostic_vascular, diagnostic_bryophyte, constancy_tables>>
    /\ UNCHANGED vegetationOthers

\* Lines 292-431.
TaxonGroups ==
    /\ pc = "taxon_groups"
    /\ vascular_data' = SelectSeq(vegetation_data, IsVascular)
    /\ bryophyte_data' =
          GroupSum(Aggregate_Genus(SelectSeq(vegetation_data, IsBryophyte), BryophyteGenera))
    /\ lichen_data' =
          GroupSum(Aggregate_Genus(SelectSeq(vegetation_data, IsLichen), LichenGenera))
    /\ pc' = "diagnostic_sets"
    /\ UNCHANGED <<vegetation_rows, schema_data, vegetation_data,
                   diagnostic_vascular, diagnostic_bryophyte, constancy_tables>>
    /\ UNCHANGED vegetationOthers

\* Lines 673-701.  The column 'diagnostic set' of the joined frames is held
\* in name_accepted.
DiagnosticSets ==
    /\ pc = "diagnostic_sets"
    /\ diagnostic_vascular' = GroupSum(MergeSchema(vascular_data, schema_data))
    /\ diagnostic_bryophyte' = GroupSum(MergeSchema(bryophyte_data, schema_data))
    /\ pc' = "constancy"
    /\ UNCHANGED <<vegetation_rows, schema_data, vegetation_data, vascular_data,
                   bryophyte_data, lichen_data, constancy_tables>>
    /\ UNCHANGED vegetationOthers

\* Lines 703-717 and 872-894.
Constancy ==
    /\ pc = "constancy"
    /\ constancy_tables' =
          [constancy_diagnostic_vasc |-> ConstancyTable(diagnostic_vascular),
           constancy_diagnostic_bryo |-> ConstancyTable(diagnostic_bryophyte),
           constancy_vascular |-> ConstancyTable(vascular_data),
           constancy_bryophyte |-> ConstancyTable(bryophyte_data),
           constancy_lichen |-> ConstancyTable(lichen_data)]
    /\ pc' = "cover_statistics"
    /\ UNCHANGED <<vegetation_rows, schema_data, vegetation_data, vascular_data,
                   bryophyte_data, lichen_data, diagnostic_vascular, diagnostic_bryophyte>>
    /\ UNCHANGED vegetationOthers

VegetationNext ==
    \/ VegetationCover
    \/ AbsoluteLive
    \/ TaxonGroups
    \/ DiagnosticSets
    \/ Constancy

VegetationSpec == VegetationInit /\ [][VegetationNext]_vars

\* The frame each constancy table is computed from.
ConstancyFrame(table) ==
    CASE table = "constancy_diagnostic_vasc" -> diagnostic_vascular
      [] table = "constancy_diagnostic_bryo" -> diagnostic_bryophyte
      [] table = "constancy_vascular" -> vascular_data
      [] table = "constancy_bryophyte" -> bryophyte_data
      [] table = "constancy_lichen" -> lichen_data

(***************************************************************************)
(* C12.  The constancy of a taxon or diagnostic set in a group is 100      *)
(* times the number of distinct site visits of the group in which it       *)
(* occurs at all (with a cover above 0), divided by the number of site     *)
(* visits of the group, and so is at most 100; in hundredths of a percent. *)
(***************************************************************************)
C12_SiteVisitsWith(frame, n) ==
    {r.site_visit_code :
        r \in {x \in Rows(frame) : x.name_accepted = n /\ x.cover_percent > 0}}

C12_ConstancyIsShareOfSiteVisits ==
    pc = "cover_statistics" =>
        \A table \in DOMAIN constancy_tables :
            \A row \in constancy_tables[table] :
                LET frame == ConstancyFrame(table)
                IN  /\ row.constancy <= 10000
                    /\ row.constancy =
                          (Cardinality(C12_SiteVisitsWith(frame, row.name)) * 10000)
                              \div Cardinality({r.site_visit_code : r \in Rows(frame)})

(***************************************************************************)
(* The percentile helpers, lines 76-90.  A value of the column is a whole  *)
(* number; a percentile is held in hundredths.                             *)
(***************************************************************************)
MaxSeries == 3      \* values of the column handed to a helper

SeriesValues == {0, 1, 2, 5, 10}

RECURSIVE SeriesOf(_)
SeriesOf(n) ==
    IF n = 0 THEN {<<>>}
    ELSE LET shorter == SeriesOf(n - 1)
         IN  shorter \cup
             {Append(l, v) : l \in {y \in shorter : Len(y) = n - 1}, v \in SeriesValues}

\* The quantile without interpolation: the value at the whole rank.
quantile_Lower(column, q) ==
    SortSeq(column, LAMBDA a, b : a < b)[(q * (Len(column) - 1)) \div 100 + 1] * 100

\* Series.quantile(q) with the default interpolation, 'linear': the values
\* are sorted, the rank q * (n - 1) is split into its whole part and its
\* fraction, and the result lies that fraction of the way from the value at
\* the whole rank to the next one.  q is given in hundredths.
quantile(column, q) ==
    LET sorted == SortSeq(column, LAMBDA a, b : a < b)
        rank == q * (Len(column) - 1)
        lower == rank \div 100
        fraction == rank % 100
    IN  IF fraction = 0
        THEN sorted[lower + 1] * 100
        ELSE sorted[lower + 1] * 100 + fraction * (sorted[lower + 2] - sorted[lower + 1])

\* Lines 77-78.
percentile_10(column) == quantile(column, 10)

\* Lines 81-82.
percentile_25(column) == quantile(column, 25)

\* Lines 85-86.
percentile_75(column) == quantile(column, 75)

\* Lines 89-90.
percentile_90(column) == quantile(column, 90)

PercentileInit ==
    /\ pc = "percentile_10"
    /\ series \in (SeriesOf(MaxSeries) \ {<<>>}) \cup {<<1, 2, 3, 4, 5, 6, 7, 8, 9, 10>>}
    /\ percentiles = <<>>
    /\ FilterIdle /\ StructureIdle /\ SentinelIdle /\ ParseIdle /\ RunIdle
    /\ VegetationIdle /\ InjectIdle /\ TableIdle /\ EnvIdle

percentileOthers ==
    <<filterVars, structVars, sentinelVars, parseVars, runVars, vegVars, injectVars,
      tableVars, envVars, series>>

Percentile10 ==
    /\ pc = "percentile_10"
    /\ percentiles' = [percentile_10 |-> percentile_10(series)]
    /\ pc' = "percentile_25"
    /\ UNCHANGED percentileOthers

Percentile25 ==
    /\ pc = "percentile_25"
    /\ percentiles' =
          [percentile_10 |-> percentiles.percentile_10,
           percentile_25 |-> percentile_25(series)]
    /\ pc' = "percentile_75"
    /\ UNCHANGED percentileOthers

Percentile75 ==
    /\ pc = "percentile_75"
    /\ percentiles' =
          [percentile_10 |-> percentiles.percentile_10,
           percentile_25 |-> percentiles.percentile_25,
           percentile_75 |-> percentile_75(series)]
    /\ pc' = "percentile_90"
    /\ UNCHANGED percentileOthers

Percentile90 ==
    /\ pc = "percentile_90"
    /\ percentiles' =
          [percentile_10 |-> percentiles.percentile_10,
           percentile_25 |-> percentiles.percentile_25,
           percentile_75 |-> percentiles.percentile_75,
           percentile_90 |-> percentile_90(series)]
    /\ pc' = "returned"
    /\ UNCHANGED percentileOthers

PercentileNext ==
    \/ Percentile10
    \/ Percentile25
    \/ Percentile75
    \/ Percentile90

PercentileSpec == PercentileInit /\ [][PercentileNext]_vars

(***************************************************************************)
(* C13.  For a non-empty column each helper returns the linearly           *)
(* interpolated quantile at 0.10, 0.25, 0.75, 0.90: with the values in     *)
(* non-decreasing order v[1..n] (v[k] is the value with fewer than k       *)
(* values below it and at least k values not above it) and the rank        *)
(* q * (n - 1) between k - 1 and k, the result r satisfies                 *)
(* r - v[k] = (rank - (k - 1)) * (v[k+1] - v[k]);                          *)
(* for n = 1 it is the value.  For 1, ..., 10 the 10th percentile is 1.9   *)
(* and the 90th is 9.1.                                                    *)
(***************************************************************************)
C13_Ordered(column) ==
    [k \in DOMAIN column |->
        CHOOSE a \in Rows(column) :
            /\ Cardinality({i \in DOMAIN column : column[i] < a}) < k
            /\ k <= Cardinality({i \in DOMAIN column : column[i] <= a})]

C13_IsQuantile(column, q, r) ==
    LET v == C13_Ordered(column)
        n == Len(column)
    IN  IF n = 1 THEN r = v[1] * 100
        ELSE \E k \in 1 .. n - 1 :
                /\ (k - 1) * 100 <= q * (n - 1)
                /\ q * (n - 1) <= k * 100
                /\ r - v[k] * 100 = (q * (n - 1) - (k - 1) * 100) * (v[k + 1] - v[k])

C13_Percentiles ==
    /\ \A h \in DOMAIN percentiles :
          C13_IsQuantile(series,
                         CASE h = "percentile_10" -> 10
                           [] h = "percentile_25" -> 25
                           [] h = "percentile_75" -> 75
                           [] h = "percentile_90" -> 90,
                         percentiles[h])
    /\ (pc = "returned" /\ series = <<1, 2, 3, 4, 5, 6, 7, 8, 9, 10>>) =>
          percentiles.percentile_10 = 190 /\ percentiles.percentile_90 = 910

\* The helpers applied to 1, ..., 10, and to a column out of order whose
\* percentiles fall between two values.
C13_Witness ==
    /\ pc = "returned"
    /\ \/ series = <<1, 2, 3, 4, 5, 6, 7, 8, 9, 10>>
       \/ series = <<10, 0, 5>> /\ percentiles.percentile_10 = 100

(***************************************************************************)
(* C14.  Every vegetation cover record behind a structure, diagnostic set  *)
(* or composition statistic has an absolute cover type and is not dead:    *)
(* from the filter on, the frames hold their rows and their cover sums     *)
(* from the live absolute records of the query alone.                      *)
(***************************************************************************)
C14_LiveAbsolute(r) ==
    /\ r.cover_type = "absolute foliar cover" \/ r.cover_type = "absolute canopy cover"
    /\ ~r.dead_status

C14_At(frame, site) == SelectSeq(frame, LAMBDA r : r.site_visit_code = site)

C14_OnlyLiveAbsoluteCover ==
    LET admitted == SelectSeq(ReplaceAbsent(vegetation_rows), C14_LiveAbsolute)
    IN  /\ pc \notin {"cover_percent", "absolute_live"} =>
              vegetation_data = admitted
        /\ pc \in {"diagnostic_sets", "constancy", "cover_statistics"} =>
              /\ vascular_data = SelectSeq(admitted, IsVascular)
              /\ \A site \in SiteVisitCodes :
                    /\ SumCover(C14_At(bryophyte_data, site))
                          = SumCover(C14_At(SelectSeq(admitted, IsBryophyte), site))
                    /\ SumCover(C14_At(lichen_data, site))
                          = SumCover(C14_At(SelectSeq(admitted, IsLichen), site))
                    /\ C14_At(bryophyte_data, site) # <<>> =>
                          C14_At(SelectSeq(admitted, IsBryophyte), site) # <<>>
                    /\ C14_At(lichen_data, site) # <<>> =>
                          C14_At(SelectSeq(admitted, IsLichen), site) # <<>>
        /\ pc \in {"constancy", "cover_statistics"} =>
              /\ {r.site_visit_code : r \in Rows(diagnostic_vascular)}
                    \subseteq {r.site_visit_code : r \in Rows(SelectSeq(admitted, IsVascular))}
              /\ {r.site_visit_code : r \in Rows(diagnostic_bryophyte)}
                    \subseteq {r.site_visit_code : r \in Rows(SelectSeq(admitted, IsBryophyte))}

\* A dead or relative-cover record with a cover of 10 beside a live absolute
\* one of the same taxon, and the statistics computed.
C14_Witness ==
    /\ pc = "cover_statistics"
    /\ Len(vegetation_rows) = 2
    /\ Len(vascular_data) = 1
    /\ \E i \in DOMAIN vegetation_rows :
          /\ ~C14_LiveAbsolute(vegetation_rows[i])
          /\ vegetation_rows[i].cover_percent = 10
          /\ IsVascular(vegetation_rows[i])

(***************************************************************************)
(* C15.  Every site visit selected for the report has perspective ground,  *)
(* an observation year of 2000 or later, a vascular scope of exhaustive or *)
(* non-trace species, and the label of the target unit; the code of a site *)
(* visit failing one of the four never stands in input_sql.                *)
(***************************************************************************)
C15_Eligible(s) ==
    /\ sites[s].perspective = "ground"
    /\ sites[s].obs_year >= 2000
    /\ sites[s].scope_vascular = "exhaustive" \/ sites[s].scope_vascular = "non-trace species"
    /\ \E a \in raster_attributes :
          a.VALUE = sites[s].raster_value /\ a.LABEL = unit_name

C15_SelectedSiteVisits ==
    /\ Position(pc) > Position("filter_unit") =>
          \A s \in RowSet(site_visit_data) : C15_Eligible(s)
    /\ \A s \in DbSites :
          (\E i \in DOMAIN input_sql : input_sql[i] = QuotedCodes[s]) => C15_Eligible(s)

\* input_sql names one site visit and leaves out one seen from the air, one
\* of 1999, one of a lesser vascular scope or one of another unit.
C15_Witness ==
    /\ \E i \in DOMAIN input_sql : input_sql[i] \in {QuotedCodes[s] : s \in DbSites}
    /\ \E s \in DbSites :
          /\ ~C15_Eligible(s)
          /\ \/ sites[s].perspective = "aerial"
             \/ sites[s].obs_year = 1999
             \/ sites[s].scope_vascular = "common species"
             \/ sites[s].raster_value = 2

(***************************************************************************)
(* C16.  With the schema a many-to-one mapping from constituent to         *)
(* diagnostic set, each vascular or bryophyte row gives its cover to at    *)
(* most one set: for every site visit the covers of the diagnostic sets    *)
(* sum to the summed cover of the site visit's rows whose taxon is a       *)
(* constituent of some set.                                                *)
(***************************************************************************)
C16_ManyToOne(schema) ==
    \A i, j \in DOMAIN schema :
        schema[i].constituents = schema[j].constituents => i = j

C16_Constituent(r) ==
    \E i \in DOMAIN schema_data : schema_data[i].constituents = r.name_accepted

C16_CoverAt(frame, site) ==
    SumCover(SelectSeq(frame, LAMBDA r : r.site_visit_code = site))

C17_Clause(rows) ==
    <<"\r\nWHERE site_visit.site_visit_code IN", " (">>
        \o [i \in 1 .. 2 * Len(rows) - 1 |->
               IF i % 2 = 1 THEN QuotedCodes[rows[(i + 1) \div 2]] ELSE ", "]
        \o <<");">>

C17_WellFormedClause ==
    Position(pc) > Position("input_sql") => input_sql = C17_Clause(site_visit_data)

(***************************************************************************)
(* The query files and the filter clause: lines 261-265, 271-275, 436-440, *)
(* ..., 486-490.  A query file is a sequence of pieces of text, of which   *)
(* ';' is one.                                                             *)
(***************************************************************************)
MaxQuery == 3       \* pieces of text of a query file

QueryPieces == {"SELECT", ";", "-- note"}

RECURSIVE QueryTexts(_)
QueryTexts(n) ==
    IF n = 0 THEN {<<>>}
    ELSE LET shorter == QueryTexts(n - 1)
         IN  shorter \cup
             {Append(l, t) : l \in {y \in shorter : Len(y) = n - 1}, t \in QueryPieces}

\* The clause of a run that selected two site visits.
ExampleClause == InputSql(<<1, 2>>)

InjectInit ==
    /\ pc \in FilteredQueries
    /\ query_file \in QueryTexts(MaxQuery)
    /\ query_sent = <<>>
    /\ FilterIdle /\ StructureIdle /\ SentinelIdle /\ ParseIdle /\ CryptogamIdle
    /\ VegetationIdle /\ QuantileIdle /\ TableIdle /\ EnvIdle
    /\ sites = <<>>
    /\ db = <<>>
    /\ status = "running"
    /\ error = "none"
    /\ unit_name = <<>>
    /\ level_text = <<>>
    /\ photo_text = <<>>
    /\ connections = 1
    /\ issued = <<>>
    /\ in_flight = "none"
    /\ site_visit_data = <<1, 2>>
    /\ veg_type = <<>>
    /\ input_sql = ExampleClause
    /\ frames = <<>>
    /\ aggregated = {}
    /\ zero_division = {}
    /\ files_written = <<>>
    /\ replacements = <<>>
    /\ md_content = <<>>
    /\ surfacewater_frequency = <<>>

\* project_query.replace(';', input_sql) and the like, and the call of
\* query_to_dataframe with the result.
InjectFilter ==
    /\ pc \in FilteredQueries
    /\ query_sent' = Replace(query_file, ";", input_sql)
    /\ pc' = "sent"
    /\ UNCHANGED query_file
    /\ UNCHANGED <<filterVars, structVars, sentinelVars, parseVars, runVars, vegVars, quantVars,
                   tableVars, envVars>>

InjectNext == InjectFilter

InjectSpec == InjectInit /\ [][InjectNext]_vars

(***************************************************************************)
(* C18.  Each filtered query is sent with input_sql in it exactly once, in *)
(* the place of the semicolon that ends the query file, whatever the       *)
(* number of semicolons in the file; the rest of the text is unchanged.    *)
(***************************************************************************)
C18_ClauseOnceAtTheEnd ==
    (pc = "sent" /\ query_file # <<>> /\ query_file[Len(query_file)] = ";") =>
        query_sent = SubSeq(query_file, 1, Len(query_file) - 1) \o input_sql

(***************************************************************************)
(* C19.  Report assembly replaces every occurrence of each key of the      *)
(* template by the key's own value: no key of the map is left in the       *)
(* content, and the content is the template with each key, where it        *)
(* stands, exchanged for its value, the text put in for one key never      *)
(* touched by a later key.                                                 *)
(***************************************************************************)
C19_KeyAt(content, i, key) ==
    /\ i + Len(key) - 1 <= Len(content)
    /\ SubSeq(content, i, i + Len(key) - 1) = key

RECURSIVE C19_Filled(_, _)
C19_Filled(content, map) ==
    IF content = <<>> THEN <<>>
    ELSE LET hits == {k \in DOMAIN map : C19_KeyAt(content, 1, map[k][1])}
         IN  IF hits = {}
             THEN <<Head(content)>> \o C19_Filled(Tail(content), map)
             ELSE LET k == CHOOSE h \in hits : \A g \in hits : h <= g
                  IN  map[k][2]
                          \o C19_Filled(SubSeq(content, Len(map[k][1]) + 1, Len(content)),
                                        map)

C19_EveryKeyByItsOwnValue ==
    status = "done" =>
        /\ \A k \in DOMAIN replacements :
              \A i \in DOMAIN md_content : ~C19_KeyAt(md_content, i, replacements[k][1])
        /\ md_content = C19_Filled(text_file, replacements)

(***************************************************************************)
(* C20.  When parse_markdown finds a Unit Name and a Photos value, the     *)
(* keys rebuilt from them, **Unit Name:** <name> and **Photos:** <photos>, *)
(* occur in the template, and the assembled content holds neither field    *)
(* label any more, whatever the whitespace between label and value.        *)
(***************************************************************************)
C20_Occurs(content, key) ==
    \E i \in DOMAIN content :
        /\ i + Len(key) - 1 <= Len(content)
        /\ SubSeq(content, i, i + Len(key) - 1) = key

C20_FieldKeysOccur ==
    (status = "done" /\ unit_name # None /\ photo_text # None) =>
        /\ C20_Occurs(text_file, <<"**Unit Name:**", " ">> \o unit_name)
        /\ C20_Occurs(text_file, <<"**Photos:**", " ">> \o photo_text)
        /\ \A i \in DOMAIN md_content :
              md_content[i] # "**Unit Name:**" /\ md_content[i] # "**Photos:**"

(***************************************************************************)
(* C21.  Every record that enters a bryophyte statistic belongs to a site  *)
(* visit of bryophyte scope exhaustive, non-trace species or common        *)
(* species, every record that enters a lichen statistic to a site visit of *)
(* lichen scope among the same three; the bryophyte and the lichen site    *)
(* visits all pass the filters on year, perspective and vascular scope.    *)
(***************************************************************************)
C21_Scopes == {"exhaustive", "non-trace species", "common species"}

C21_PassesFilters(s) ==
    /\ sites[s].obs_year >= 2000
    /\ sites[s].perspective = "ground"
    /\ sites[s].scope_vascular = "exhaustive" \/ sites[s].scope_vascular = "non-trace species"

C21_CryptogamScopes ==
    /\ \A s \in frames["bryophyte_data"] : sites[s].scope_bryophyte \in C21_Scopes
    /\ \A s \in frames["lichen_data"] : sites[s].scope_lichen \in C21_Scopes
    /\ \A s \in bryophyte_sites :
          sites[s].scope_bryophyte \in C21_Scopes /\ C21_PassesFilters(s)
    /\ \A s \in lichen_sites :
          sites[s].scope_lichen \in C21_Scopes /\ C21_PassesFilters(s)

\* The bryophyte and lichen statistics of the structure have been computed
\* from records of one site visit, and the vegetation query returned records
\* of another site visit whose bryophyte and lichen scope is none.
C21_Witness ==
    /\ Position(pc) > Position("structure")
    /\ frames["bryophyte_data"] # {}
    /\ frames["lichen_data"] # {}
    /\ frames["bryophyte_data"] \subseteq aggregated
    /\ \E s \in frames["vegetation_data"] :
          /\ sites[s].scope_bryophyte = "none"
          /\ sites[s].scope_lichen = "none"
          /\ s \notin frames["bryophyte_data"] \cup frames["lichen_data"]

(***************************************************************************)
(* The bryophyte and lichen frames statement by statement: the selection   *)
(* (lines 314-330 and 380-395), the renaming by genus (lines 332-363 and   *)
(* 397-416), the sums (lines 365-378 and 418-431).  The run starts from    *)
(* the live absolute records that line 289 leaves.                         *)
(***************************************************************************)
MaxCryptogams == 2  \* rows of vegetation_data

CryptogamNames ==
    <<"Sphagnum fuscum", "Sphagnum teres", "Marchantia polymorpha", "Sphagnum moss",
      "moss", "lichen", "Peltigera aphthosa", "Masonhalea richardsonii">>

CryptogamRecords ==
    [site_visit_code : SiteVisitCodes,
     name_accepted : {CryptogamNames[i] : i \in DOMAIN CryptogamNames},
     cover_percent : {3, 10},
     cover_type : {"absolute foliar cover"},
     dead_status : {FALSE}]

CryptogamRank(r) ==
    LET n == CHOOSE i \in DOMAIN CryptogamNames : CryptogamNames[i] = r.name_accepted
    IN  (r.site_visit_code * 16 + n) * 2 + (IF r.cover_percent = 10 THEN 1 ELSE 0)

RECURSIVE CryptogamLists(_)
CryptogamLists(n) ==
    IF n = 0 THEN {<<>>}
    ELSE LET shorter == CryptogamLists(n - 1)
         IN  shorter \cup
             UNION {{Append(l, r) :
                        r \in {x \in CryptogamRecords :
                                  l = <<>> \/ CryptogamRank(l[Len(l)]) <= CryptogamRank(x)}} :
                    l \in {x \in shorter : Len(x) = n - 1}}

CryptogamInit ==
    /\ pc = "cryptogam_select"
    /\ vegetation_data \in CryptogamLists(MaxCryptogams)
    /\ vegetation_rows = vegetation_data
    /\ schema_data = <<>>
    /\ bryophyte_sites \in {SiteVisitCodes, {2}}
    /\ lichen_sites \in {SiteVisitCodes, {1}}
    /\ vascular_data = <<>>
    /\ bryophyte_data = <<>>
    /\ lichen_data = <<>>
    /\ diagnostic_vascular = <<>>
    /\ diagnostic_bryophyte = <<>>
    /\ constancy_tables = <<>>
    /\ FilterIdle /\ StructureIdle /\ SentinelIdle /\ ParseIdle /\ RunRestIdle
    /\ QuantileIdle /\ InjectIdle /\ TableIdle /\ EnvIdle

\* Lines 309-330 and 380-395.
CryptogamSelect ==
    /\ pc = "cryptogam_select"
    /\ vascular_data' = SelectSeq(vegetation_data, IsVascular)
    /\ bryophyte_data' = SelectSeq(vegetation_data, IsBryophyte)
    /\ lichen_data' = SelectSeq(vegetation_data, IsLichen)
    /\ pc' = "cryptogam_aggregate"
    /\ UNCHANGED <<vegetation_rows, schema_data, vegetation_data,
                   diagnostic_vascular, diagnostic_bryophyte, constancy_tables>>
    /\ UNCHANGED vegetationOthers

\* Lines 332-363 and 397-416.
CryptogamAggregate ==
    /\ pc = "cryptogam_aggregate"
    /\ bryophyte_data' = Aggregate_Genus(bryophyte_data, BryophyteGenera)
    /\ lichen_data' = Aggregate_Genus(lichen_data, LichenGenera)
    /\ pc' = "cryptogam_sums"
    /\ UNCHANGED <<vegetation_rows, schema_data, vegetation_data, vascular_data,
                   diagnostic_vascular, diagnostic_bryophyte, constancy_tables>>
    /\ UNCHANGED vegetationOthers

\* Lines 365-378 and 418-431.
CryptogamSums ==
    /\ pc = "cryptogam_sums"
    /\ bryophyte_data' = GroupSum(bryophyte_data)
    /\ lichen_data' = GroupSum(lichen_data)
    /\ pc' = "cryptogam_done"
    /\ UNCHANGED <<vegetation_rows, schema_data, vegetation_data, vascular_data,
                   diagnostic_vascular, diagnostic_bryophyte, constancy_tables>>
    /\ UNCHANGED vegetationOthers

CryptogamNext ==
    \/ CryptogamSelect
    \/ CryptogamAggregate
    \/ CryptogamSums

CryptogamSpec == CryptogamInit /\ [][CryptogamNext]_vars

(***************************************************************************)
(* C22.  Of the records of the bryophyte site visits, the bryophyte        *)
(* selection keeps a record of category functional group exactly when its  *)
(* name is one of the six bryophyte functional groups, a record of         *)
(* category unknown exactly when its name is liverwort or moss, and every  *)
(* liverwort, moss and hornwort record.                                    *)
(***************************************************************************)
C22_FunctionalGroups ==
    {"non-thalloid liverwort", "thalloid liverwort", "feathermoss (other)",
     "feathermoss (N-fixing)", "Sphagnum moss", "turf moss"}

C22_Category(r) ==
    (CHOOSE t \in taxa_data : t.taxon_name = r.name_accepted).taxon_category

C22_Retained(r) == \E i \in DOMAIN bryophyte_data : bryophyte_data[i] = r

C22_BryophyteSelection ==
    pc = "cryptogam_aggregate" =>
        \A i \in DOMAIN vegetation_data :
            LET r == vegetation_data[i]
            IN  r.site_visit_code \in bryophyte_sites =>
                  /\ C22_Category(r) = "functional group" =>
                        (C22_Retained(r) <=> r.name_accepted \in C22_FunctionalGroups)
                  /\ C22_Category(r) = "unknown" =>
                        (C22_Retained(r) <=> r.name_accepted \in {"liverwort", "moss"})
                  /\ C22_Category(r) \in {"liverwort", "moss", "hornwort"} =>
                        C22_Retained(r)

(***************************************************************************)
(* C23.  The aggregation of bryophytes and lichens by genus preserves      *)
(* cover.  The renaming gives every record whose genus is in the list the  *)
(* aggregate name and leaves every other record as it is; the sums leave   *)
(* at most one row for a site visit and a name, and for every site visit   *)
(* the cover summed over all names is the same before the renaming and     *)
(* after the sums.                                                         *)
(***************************************************************************)
C23_BryophyteNames ==
    [g \in {"Brachythecium", "Calliergon", "Cinclidium", "Dicranum", "Drepanocladus",
            "Hamatocaulis", "Loeskypnum", "Meesia", "Polytrichum", "Pseudocalliergon",
            "Racomitrium", "Rhizomnium", "Sarmentypnum", "Scorpidium", "Sphagnum"} |-> g]

C23_LichenNames ==
    [g \in {"Bryoria", "Dactylina", "Lobaria", "Masonhalea", "Nephroma", "Peltigera",
            "Sphaerophorus", "Stereocaulon", "Thamnolia"} |->
        IF g = "Masonhalea" THEN "Masonhalea richardsonii" ELSE g]

C23_Genus(r) ==
    (CHOOSE t \in taxa_data : t.taxon_name = r.name_accepted).taxon_genus

C23_Renamed(before, after, names) ==
    /\ Len(after) = Len(before)
    /\ \A i \in DOMAIN before :
          /\ after[i].site_visit_code = before[i].site_visit_code
          /\ after[i].cover_percent = before[i].cover_percent
          /\ after[i].name_accepted =
                IF C23_Genus(before[i]) \in DOMAIN names
                THEN names[C23_Genus(before[i])]
                ELSE before[i].name_accepted

RECURSIVE C23_CoverAt(_, _)
C23_CoverAt(frame, site) ==
    IF frame = <<>> THEN 0
    ELSE (IF Head(frame).site_visit_code = site THEN Head(frame).cover_percent ELSE 0)
             + C23_CoverAt(Tail(frame), site)

C23_Summed(before, after) ==
    /\ \A site \in SiteVisitCodes : C23_CoverAt(after, site) = C23_CoverAt(before, site)
    /\ \A i, j \in DOMAIN after :
          (/\ after[i].site_visit_code = after[j].site_visit_code
           /\ after[i].name_accepted = after[j].name_accepted) => i = j
    /\ {<<r.site_visit_code, r.name_accepted>> : r \in Rows(after)}
          = {<<r.site_visit_code, r.name_accepted>> : r \in Rows(before)}

C23_Step ==
    /\ pc = "cryptogam_aggregate" =>
          /\ C23_Renamed(bryophyte_data, bryophyte_data', C23_BryophyteNames)
          /\ C23_Renamed(lichen_data, lichen_data', C23_LichenNames)
    /\ pc = "cryptogam_sums" =>
          /\ C23_Summed(bryophyte_data, bryophyte_data')
          /\ C23_Summed(lichen_data, lichen_data')

C23_AggregationPreservesCover == [][C23_Step]_vars

\* Two Sphagnum species of one site visit have become one row named
\* Sphagnum that holds the sum of their covers.
C23_Witness ==
    /\ pc = "cryptogam_done"
    /\ Len(vegetation_data) = 2
    /\ vegetation_data[1].name_accepted = "Sphagnum fuscum"
    /\ vegetation_data[2].name_accepted = "Sphagnum teres"
    /\ vegetation_data[1].site_visit_code = vegetation_data[2].site_visit_code
    /\ Len(bryophyte_data) = 1
    /\ bryophyte_data[1].name_accepted = "Sphagnum"
    /\ bryophyte_data[1].cover_percent =
          vegetation_data[1].cover_percent + vegetation_data[2].cover_percent

(***************************************************************************)
(* The statistics tables: lines 719-784 (diagnostic sets), lines 896-982   *)
(* (species composition), lines 984-993 (display table) and lines          *)
(* 995-1036 (the rows of the chart).  The run starts from the vascular,    *)
(* bryophyte and lichen frames that line 431 leaves.                       *)
(***************************************************************************)
MaxStatRows == 3    \* rows the vegetation query returns

StatNames == <<"Carex aquatilis", "Salix pulchra", "Sphagnum fuscum", "Peltigera aphthosa">>

StatRecords ==
    [site_visit_code : SiteVisitCodes,
     name_accepted : {StatNames[i] : i \in DOMAIN StatNames},
     cover_percent : {0, 1, 4},
     cover_type : {"absolute foliar cover"},
     dead_status : {FALSE}]

StatRank(r) ==
    LET n == CHOOSE i \in DOMAIN StatNames : StatNames[i] = r.name_accepted
    IN  (r.site_visit_code * 8 + n) * 8 + r.cover_percent

RECURSIVE StatLists(_)
StatLists(n) ==
    IF n = 0 THEN {<<>>}
    ELSE LET shorter == StatLists(n - 1)
         IN  shorter \cup
             UNION {{Append(l, r) :
                        r \in {x \in StatRecords :
                                  l = <<>> \/ StatRank(l[Len(l)]) <= StatRank(x)}} :
                    l \in {x \in shorter : Len(x) = n - 1}}

\* pivot_table(index='site_visit_code', columns=..., values='cover_percent',
\* aggfunc='sum', fill_value=0): the column of one name, one cell for every
\* site visit of the frame.
PivotColumn(frame, n) ==
    LET site_visits == SetToSeq({r.site_visit_code : r \in Rows(frame)})
    IN  [i \in DOMAIN site_visits |->
            SumCover(SelectSeq(frame,
                LAMBDA r : r.site_visit_code = site_visits[i] /\ r.name_accepted = n))]

RECURSIVE SumSeq(_)
SumSeq(column) == IF column = <<>> THEN 0 ELSE Head(column) + SumSeq(Tail(column))

\* .agg(['mean', ..., percentile_75, ...]).transpose(): one row for every
\* name, in hundredths.
CoverTable(frame) ==
    {[name |-> n,
      mean |-> (SumSeq(PivotColumn(frame, n)) * 100) \div Len(PivotColumn(frame, n)),
      p75 |-> percentile_75(PivotColumn(frame, n))] :
     n \in {r.name_accepted : r \in Rows(frame)}}

\* Lines 767-770 and 965-968: pd.merge(left=constancy, right=cover, on=name,
\* how='left').  Every row of the constancy table is joined to every row of
\* the cover table that has its name; a row without partner stays, with
\* null statistics.
RECURSIVE MergeStatistics(_, _)
MergeStatistics(constancy, cover) ==
    IF constancy = <<>> THEN <<>>
    ELSE LET c == Head(constancy)
             hits == SelectSeq(cover, LAMBDA x : x.name = c.name)
         IN  (IF hits = <<>>
              THEN <<[name |-> c.name, constancy |-> c.constancy, matched |-> FALSE,
                      mean |-> 0, p75 |-> 0]>>
              ELSE [j \in DOMAIN hits |->
                       [name |-> c.name, constancy |-> c.constancy, matched |-> TRUE,
                        mean |-> hits[j].mean, p75 |-> hits[j].p75]])
             \o MergeStatistics(Tail(constancy), cover)

\* .round(1) of the merged rows (lines 771 and 969).
RoundRows(rows) ==
    [i \in DOMAIN rows |->
        [rows[i] EXCEPT !.constancy = Round1(@), !.mean = Round1(@), !.p75 = Round1(@)]]

\* sort_values(by='mean', ascending=True); rows of equal mean in the order
\* the sort leaves them.
SortAscending(rows) == SortSeq(rows, LAMBDA a, b : a.mean < b.mean)

\* The sort left out: the rows in the order of stats_composition.
SortDescending_Unsorted(rows) == rows

\* sort_values(by='mean', ascending=False) (line 987).
SortDescending(rows) == SortSeq(rows, LAMBDA a, b : a.mean > b.mean)

\* Lines 998-1002: the left join with taxa_data on the name.
RECURSIVE MergeTaxa(_)
MergeTaxa(rows) ==
    IF rows = <<>> THEN <<>>
    ELSE LET r == Head(rows)
             hits == SetToSeq({t \in taxa_data : t.taxon_name = r.name})
         IN  (IF hits = <<>>
              THEN <<[name |-> r.name, mean |-> r.mean, taxon_category |-> "NaN"]>>
              ELSE [j \in DOMAIN hits |->
                       [name |-> r.name, mean |-> r.mean,
                        taxon_category |-> hits[j].taxon_category]])
             \o MergeTaxa(Tail(rows))

StatisticsInit ==
    /\ pc = "diagnostic_sets"
    /\ vegetation_data \in StatLists(MaxStatRows)
    /\ vegetation_rows = vegetation_data
    /\ schema_data \in Schemas
    /\ bryophyte_sites = SiteVisitCodes
    /\ lichen_sites = SiteVisitCodes
    /\ vascular_data = SelectSeq(vegetation_data, IsVascular)
    /\ bryophyte_data =
          GroupSum(Aggregate_Genus(SelectSeq(vegetation_data, IsBryophyte), BryophyteGenera))
    /\ lichen_data =
          GroupSum(Aggregate_Genus(SelectSeq(vegetation_data, IsLichen), LichenGenera))
    /\ diagnostic_vascular = <<>>
    /\ diagnostic_bryophyte = <<>>
    /\ constancy_tables = <<>>
    /\ merged_diagnostic = {}
    /\ merged_composition = {}
    /\ stats_diagnostic = <<>>
    /\ stats_composition = <<>>
    /\ table_composition = <<>>
    /\ composition_plot = <<>>
    /\ StructureIdle /\ SentinelIdle /\ ParseIdle /\ RunRestIdle
    /\ QuantileIdle /\ InjectIdle /\ EnvIdle

statisticsOthers ==
    <<structVars, sentinelVars, parseVars, quantVars, injectVars, vegVars, envVars,
      merged_diagnostic, merged_composition,
      inputVars, fieldVars, queryVars, siteVars, frameVars, files_written, reportVars>>

\* pivot_table and agg of a frame without rows: an empty table, or an error
\* that ends the run.
PivotRaises(tables) ==
    /\ \E t \in tables : t = <<>>
    /\ status' = "crashed"
    /\ error' = "ValueError"
    /\ pc' = pc

\* Lines 719-784.
StatsDiagnostic ==
    /\ status = "running" /\ pc = "cover_statistics"
    /\ \/ /\ PivotRaises({diagnostic_vascular, diagnostic_bryophyte})
          /\ UNCHANGED stats_diagnostic
       \/ /\ LET constancy_diagnostic ==
                     SetToSeq(constancy_tables.constancy_diagnostic_vasc)
                         \o SetToSeq(constancy_tables.constancy_diagnostic_bryo)
                 cover_diagnostic ==
                     SetToSeq(CoverTable(diagnostic_vascular))
                         \o SetToSeq(CoverTable(diagnostic_bryophyte))
                 merged == RoundRows(MergeStatistics(constancy_diagnostic, cover_diagnostic))
             IN  stats_diagnostic' =
                     SortAscending(SelectSeq(merged,
                         LAMBDA r : r.matched /\ KeepDiagnostic(r)))
          /\ pc' = "stats_composition"
          /\ UNCHANGED errorVars
    /\ UNCHANGED <<stats_composition, tableVars>>
    /\ UNCHANGED statisticsOthers

\* Lines 896-982.
StatsComposition ==
    /\ status = "running" /\ pc = "stats_composition"
    /\ \/ /\ PivotRaises({vascular_data, bryophyte_data, lichen_data})
          /\ UNCHANGED stats_composition
       \/ /\ LET constancy_composition ==
                     SetToSeq(constancy_tables.constancy_vascular)
                         \o SetToSeq(constancy_tables.constancy_bryophyte)
                         \o SetToSeq(constancy_tables.constancy_lichen)
                 cover_composition ==
                     SetToSeq(CoverTable(vascular_data))
                         \o SetToSeq(CoverTable(bryophyte_data))
                         \o SetToSeq(CoverTable(lichen_data))
                 merged == RoundRows(MergeStatistics(constancy_composition, cover_composition))
             IN  stats_composition' =
                     SortAscending(SelectSeq(merged,
                         LAMBDA r : r.matched /\ KeepComposition(r)))
          /\ pc' = "table_composition"
          /\ UNCHANGED errorVars
    /\ UNCHANGED <<stats_diagnostic, tableVars>>
    /\ UNCHANGED statisticsOthers

\* Lines 984-993.
TableComposition ==
    /\ status = "running" /\ pc = "table_composition"
    /\ table_composition' = SortDescending(stats_composition)
    /\ pc' = "composition_plot"
    /\ UNCHANGED <<errorVars, stats_diagnostic, stats_composition, composition_plot>>
    /\ UNCHANGED statisticsOthers

\* Lines 995-1036: the rows whose names and means the chart is given.
CompositionPlot ==
    /\ status = "running" /\ pc = "composition_plot"
    /\ composition_plot' = MergeTaxa(stats_composition)
    /\ pc' = "composition_output"
    /\ UNCHANGED <<errorVars, stats_diagnostic, stats_composition, table_composition>>
    /\ UNCHANGED statisticsOthers

StatisticsNext ==
    \/ DiagnosticSets
    \/ Constancy
    \/ StatsDiagnostic
    \/ StatsComposition
    \/ TableComposition
    \/ CompositionPlot

StatisticsSpec == StatisticsInit /\ [][StatisticsNext]_vars

(***************************************************************************)
(* C24.  Each diagnostic set stands in at most one row of the diagnostic-  *)
(* set statistics and each accepted name in at most one row of the species *)
(* composition statistics and of the display table, also when a set has    *)
(* constituents among the vascular and among the bryophyte records.        *)
(***************************************************************************)
C24_OneRowEach(rows) ==
    \A i, j \in DOMAIN rows : rows[i].name = rows[j].name => i = j

C24_OneRowPerSetAndName ==
    /\ C24_OneRowEach(stats_diagnostic)
    /\ C24_OneRowEach(stats_composition)
    /\ C24_OneRowEach(table_composition)

(***************************************************************************)
(* C28.  The display table and the chart of the species composition hold   *)
(* the same taxa, exactly those that pass the inclusion rule; the table    *)
(* lists them by mean cover from the highest down, the chart from the      *)
(* lowest up.                                                              *)
(***************************************************************************)
C28_Names(rows) == {rows[i].name : i \in DOMAIN rows}

\* The taxa of the three frames whose rounded statistics pass the rule.
C28_Passing ==
    {n \in {vegetation_data[i].name_accepted : i \in DOMAIN vegetation_data}
            \cup {"Sphagnum", "Peltigera"} :
        \E f \in {<<"constancy_vascular", vascular_data>>,
                  <<"constancy_bryophyte", bryophyte_data>>,
                  <<"constancy_lichen", lichen_data>>} :
            \E k \in constancy_tables[f[1]], v \in CoverTable(f[2]) :
                /\ k.name = n
                /\ v.name = n
                /\ C1_Rule(Round1(k.constancy), Round1(v.mean), Round1(v.p75))}

C28_TableAndChart ==
    (pc = "composition_output" /\ status = "running") =>
        /\ C28_Names(table_composition) = C28_Names(composition_plot)
        /\ Len(table_composition) = Len(composition_plot)
        /\ C28_Names(table_composition) = C28_Passing
        /\ \A i, j \in DOMAIN table_composition :
              i < j => table_composition[i].mean >= table_composition[j].mean
        /\ \A i, j \in DOMAIN composition_plot :
              i < j => composition_plot[i].mean <= composition_plot[j].mean

\* Two taxa of different mean cover stand in the table and in the chart,
\* a third taxon was recorded and does not pass the rule.
C28_Witness ==
    /\ pc = "composition_output" /\ status = "running"
    /\ Len(table_composition) = 2
    /\ table_composition[1].mean > table_composition[2].mean
    /\ composition_plot[1].name = table_composition[2].name
    /\ \E i \in DOMAIN vegetation_data :
          vegetation_data[i].name_accepted \notin C28_Names(table_composition)

(***************************************************************************)
(* The environment texts and the surface water figure in detail            *)
(* (lines 1108-1179), followed by the end of the run (lines 1181-1619).    *)
(* A categorical column is held as the number of its records of every      *)
(* value and the number of its nulls.  The run starts where the three      *)
(* charts are written.                                                     *)
(***************************************************************************)
EnvValues == <<"lowland", "riverine", "upland">>

\* The thresholds of lines 1112, 1123, 1134, 1145, 1156, 1167.
Threshold ==
    [physiography |-> 10, geomorphology |-> 10, macrotopography |-> 10,
     microtopography |-> 10, moisture_regime |-> 20, restrictive_type |-> 20]

EnvVariables == DOMAIN Threshold

\* Columns with values at, above and under a threshold of 10 %, of 20 %.
CategoricalColumns(counts) ==
    [counts : [{EnvValues[i] : i \in DOMAIN EnvValues} -> counts], nulls : {0, 2}]

ExampleColumn ==
    [counts |-> [v \in {EnvValues[i] : i \in DOMAIN EnvValues} |->
                    IF v = "upland" THEN 0 ELSE 1],
     nulls |-> 0]

WaterColumns == [trues : 0 .. 2, falses : {0, 1, 4, 5}, nulls : {0, 1}]

ExampleWater == [trues |-> 1, falses |-> 0, nulls |-> 0]

\* .dropna() and len().
NonNull(column) ==
    SumSeq([i \in DOMAIN EnvValues |-> column.counts[EnvValues[i]]])

\* value_counts(): one row for every value that occurs, the most frequent
\* first; values that occur equally often in the order the sort leaves them.
ValueCounts(column) ==
    SortSeq(SelectSeq([i \in DOMAIN EnvValues |->
                          [value |-> EnvValues[i], count |-> column.counts[EnvValues[i]]]],
                      LAMBDA r : r.count > 0),
            LAMBDA a, b : a.count > b.count)

\* The filter with > in place of >=.
FrequencyKept_Above(count, len, threshold) == count * 100 > threshold * len

\* (count / len) * 100 >= threshold
FrequencyKept(count, len, threshold) == count * 100 >= threshold * len

\* The loop: text = text + x + '; '
RECURSIVE JoinValues(_)
JoinValues(rows) ==
    IF rows = <<>> THEN <<>>
    ELSE <<Head(rows).value, "; ">> \o JoinValues(Tail(rows))

\* Lines 1109-1117: '; ' is two characters, so [:-2] takes the last
\* separator away, and nothing from the empty text.
EnvironmentText(column, threshold) ==
    LET frequency ==
            SelectSeq(ValueCounts(column),
                      LAMBDA r : FrequencyKept(r.count, NonNull(column), threshold))
        text == JoinValues(frequency)
    IN  IF text = <<>> THEN <<>> ELSE SubSeq(text, 1, Len(text) - 1)

EnvInit ==
    /\ pc = "environment_frequency"
    /\ \/ \E v \in {"physiography", "moisture_regime"} :
             /\ \E column \in CategoricalColumns(IF v = "physiography"
                                                 THEN {0, 1, 9, 10} ELSE {0, 1, 4, 5}) :
                   environment_data =
                       [[w \in EnvVariables |-> ExampleColumn] EXCEPT ![v] = column]
                           @@ [surface_water |-> ExampleWater]
       \/ \E water \in WaterColumns :
             environment_data =
                 [w \in EnvVariables |-> ExampleColumn] @@ [surface_water |-> water]
    /\ environment_text = <<>>
    /\ text_file = UnitLine \o LevelLine \o PhotosLine \o Placeholders
    /\ label = "none"
    /\ text_output = <<>>
    /\ sites = [s \in DbSites |->
                  [obs_year |-> 2020, perspective |-> "ground",
                   scope_vascular |-> "exhaustive", scope_bryophyte |-> "exhaustive",
                   scope_lichen |-> "common species", raster_value |-> 1]]
    /\ db = [vegetation |-> TRUE, abiotic |-> "positive", physiography |-> TRUE,
             surface_water |-> "true", other_tables |-> "all"]
    /\ status = "running"
    /\ error = "none"
    /\ unit_name = <<"T">>
    /\ level_text = <<"Alliance">>
    /\ photo_text = <<"p.jpg">>
    /\ connections = 1
    /\ issued = SelectSeq(Program, LAMBDA p : p \in QueryNames)
    /\ in_flight = "none"
    /\ site_visit_data = AllRows(NumSites)
    /\ bryophyte_sites = DbSites
    /\ lichen_sites = DbSites
    /\ veg_type = [s \in DbSites |-> <<"T">>]
    /\ input_sql = InputSql(AllRows(NumSites))
    /\ frames = [f \in FrameNames |-> DbSites]
    /\ aggregated = DbSites
    /\ zero_division = {}
    /\ files_written = <<OutputFile(plot_folder, "_Structure.html"),
                         OutputFile(plot_folder, "_DiagnosticSets.html"),
                         OutputFile(plot_folder, "_SpeciesComposition.html")>>
    /\ replacements = <<>>
    /\ md_content = <<>>
    /\ surfacewater_frequency = <<>>
    /\ FilterIdle /\ StructureIdle /\ SentinelIdle
    /\ VegetationIdle /\ QuantileIdle /\ InjectIdle /\ TableIdle

envOthers ==
    <<filterVars, structVars, sentinelVars, parseVars, inputVars, vegVars, quantVars,
      injectVars, tableVars, fieldVars, queryVars, siteVars, frameVars, files_written,
      replacements, md_content, environment_data>>

\* Lines 1108-1172.
EnvironmentTexts ==
    /\ status = "running" /\ pc = "environment_frequency"
    /\ environment_text' =
          [physiography_text |->
               EnvironmentText(environment_data.physiography, Threshold.physiography),
           geomorph_text |->
               EnvironmentText(environment_data.geomorphology, Threshold.geomorphology),
           macrotopo_text |->
               EnvironmentText(environment_data.macrotopography, Threshold.macrotopography),
           microtopo_text |->
               EnvironmentText(environment_data.microtopography, Threshold.microtopography),
           moisture_text |->
               EnvironmentText(environment_data.moisture_regime, Threshold.moisture_regime),
           restrict_text |->
               EnvironmentText(environment_data.restrictive_type, Threshold.restrictive_type)]
    /\ Continue
    /\ UNCHANGED surfacewater_frequency
    /\ UNCHANGED envOthers

\* Lines 1174-1178.
SurfaceWaterFigure ==
    /\ status = "running" /\ pc = "surfacewater_frequency"
    /\ LET trues == environment_data.surface_water.trues
           count == trues + environment_data.surface_water.falses
       IN  IF TrueRowKept(trues, count)
           THEN surfacewater_frequency' = <<FigureText(trues, count)>> /\ Continue
           ELSE Raise("KeyError") /\ UNCHANGED surfacewater_frequency
    /\ UNCHANGED environment_text
    /\ UNCHANGED envOthers

EnvNext ==
    \/ EnvironmentTexts
    \/ SurfaceWaterFigure
    \/ EnvironmentStatistics
    \/ Replacements
    \/ HtmlOutput

EnvSpec == EnvInit /\ [][EnvNext]_vars

(***************************************************************************)
(* C25.  The text of a categorical environment variable lists exactly the  *)
(* values whose share of the non-null records of the variable is at least  *)
(* the variable's threshold (10 % for physiography, geomorphology, macro-  *)
(* and microtopography, 20 % for moisture regime and restrictive type),    *)
(* each once, the more frequent first, with '; ' between two values and    *)
(* nowhere else; no value at the threshold, no text.                       *)
(***************************************************************************)
C25_Variables ==
    {<<"physiography", "physiography_text", 10>>,
     <<"geomorphology", "geomorph_text", 10>>,
     <<"macrotopography", "macrotopo_text", 10>>,
     <<"microtopography", "microtopo_text", 10>>,
     <<"moisture_regime", "moisture_text", 20>>,
     <<"restrictive_type", "restrict_text", 20>>}

C25_Count(column, v) ==
    IF v \in DOMAIN column.counts THEN column.counts[v] ELSE 0

C25_Records(column) ==
    LET values == DOMAIN column.counts
        total[S \in SUBSET values] ==
            IF S = {} THEN 0
            ELSE LET v == CHOOSE x \in S : TRUE IN column.counts[v] + total[S \ {v}]
    IN  total[values]

C25_Listed(column, threshold) ==
    {v \in DOMAIN column.counts :
        /\ column.counts[v] > 0
        /\ column.counts[v] * 100 >= threshold * C25_Records(column)}

C25_TextOf(column, text, threshold) ==
    /\ {text[i] : i \in {j \in DOMAIN text : j % 2 = 1}} = C25_Listed(column, threshold)
    /\ \A i, j \in DOMAIN text : (i % 2 = 1 /\ j % 2 = 1 /\ text[i] = text[j]) => i = j
    /\ \A i \in DOMAIN text : (text[i] = "; ") <=> (i % 2 = 0)
    /\ text = <<>> \/ Len(text) % 2 = 1
    /\ \A i, j \in DOMAIN text :
          (i % 2 = 1 /\ j % 2 = 1 /\ i < j) =>
              C25_Count(column, text[i]) >= C25_Count(column, text[j])
    /\ C25_Listed(column, threshold) = {} => text = <<>>

C25_EnvironmentTexts ==
    environment_text # <<>> =>
        \A v \in C25_Variables :
            C25_TextOf(environment_data[v[1]], environment_text[v[2]], v[3])

\* Of three values of physiography two are listed, the more frequent first,
\* and the third, under 10 %, is left out; another run lists a value of
\* exactly the threshold.
C25_Witness ==
    /\ environment_text # <<>>
    /\ Len(environment_text.physiography_text) = 3
    /\ C25_Count(environment_data.physiography, environment_text.physiography_text[1])
          > C25_Count(environment_data.physiography, environment_text.physiography_text[3])
    /\ \E v \in DOMAIN environment_data.physiography.counts :
          /\ environment_data.physiography.counts[v] > 0
          /\ \A i \in DOMAIN environment_text.physiography_text :
                environment_text.physiography_text[i] # v

(***************************************************************************)
(* C26.  The surface water figure put into the report is the percentage of *)
(* the non-null surface water records that are true, rounded to one        *)
(* decimal, followed by '%'.  When under 20 % of the non-null records are  *)
(* true, none included, the run ends with an uncaught error at this step   *)
(* and writes no report.                                                   *)
(***************************************************************************)
C26_Trues == environment_data.surface_water.trues

C26_NonNull == environment_data.surface_water.trues + environment_data.surface_water.falses

C26_Under20 == C26_NonNull = 0 \/ C26_Trues * 100 < 20 * C26_NonNull

\* The nearest tenth of a percent, as text.
C26_Figure ==
    LET tenths == CHOOSE k \in 0 .. 1000 :
                      /\ 2 * (k * C26_NonNull - 1000 * C26_Trues) <= C26_NonNull
                      /\ 2 * (1000 * C26_Trues - k * C26_NonNull) < C26_NonNull
    IN  ToString(tenths \div 10) \o "." \o ToString(tenths % 10) \o "%"

C26_Report == [folder |-> output_folder, name |-> <<unit_code, ".html">>]

C26_SurfaceWaterFigure ==
    /\ C26_Under20 =>
          /\ Position(pc) <= Position("surfacewater_frequency")
          /\ status # "done"
          /\ \A i \in DOMAIN files_written : files_written[i] # C26_Report
          /\ md_content = <<>>
    /\ (pc = "surfacewater_frequency" /\ status = "crashed") =>
          C26_Under20 /\ error = "KeyError"
    /\ Position(pc) > Position("surfacewater_frequency") =>
          surfacewater_frequency = <<C26_Figure>>
    /\ status = "done" =>
          /\ \E i \in DOMAIN md_content : md_content[i] = C26_Figure
          /\ \A i \in DOMAIN md_content : md_content[i] # "[surfacewater_frequency]"

\* One surface water record of six is true, 16.7 %: the run has ended at
\* the step with a KeyError, the three charts written and no report.
C26_Witness ==
    /\ pc = "surfacewater_frequency" /\ status = "crashed" /\ error = "KeyError"
    /\ C26_Trues = 1 /\ C26_NonNull = 6
    /\ Len(files_written) = 3

(***************************************************************************)
(* C27.  Nothing is rolled back.  A file once written stays as written; a  *)
(* run that has ended with an error keeps the chart files it wrote and     *)
(* writes nothing more, and the report is neither created nor changed.     *)
(* The report is written in a run exactly when every earlier statement     *)
(* group of the run has completed without error.                           *)
(***************************************************************************)
C27_Report == [folder |-> "03_description_html",
               name |-> <<"29_ArcticBrownMossSedgePeatlandMinerotrophic", ".html">>]

C27_HasReport(files) == \E i \in DOMAIN files : files[i] = C27_Report

C27_State ==
    /\ C27_HasReport(files_written) <=>
          (status = "done" /\ error = "none" /\ Position(pc) > Len(Program))
    /\ status = "crashed" => (error # "none" /\ ~C27_HasReport(files_written))

C27_Step ==
    /\ Len(files_written) <= Len(files_written')
    /\ SubSeq(files_written', 1, Len(files_written)) = files_written
    /\ status = "crashed" => (files_written' = files_written /\ md_content' = md_content)
    /\ (~C27_HasReport(files_written) /\ C27_HasReport(files_written')) =>
          (status = "running" /\ error = "none" /\ Position(pc) = Len(Program))

C27_NoRollback == []C27_State /\ [][C27_Step]_vars

\* The run has ended in the environment stage, at the surface water
\* figure: the three charts are written, the report is not.
C27_Witness ==
    /\ status = "crashed" /\ pc = "surfacewater_frequency"
    /\ Len(files_written) = 3
    /\ \A i \in DOMAIN files_written : files_written[i].folder = "02_plot_html"

(***************************************************************************)
(* C29.  The rows of the project, ground cover, structural group cover and *)
(* soil horizons queries have no effect on any output: the chart files and *)
(* the report of a run that succeeds are those the data entry file and the *)
(* other tables decide, so two such runs that differ only in the rows of   *)
(* these four queries write the same files with the same content.          *)
(***************************************************************************)
C29_Frames == {FrameOf(q) : q \in OtherQueries}

C29_Chart(suffix) == [folder |-> "02_plot_html",
                      name |-> <<"29_ArcticBrownMossSedgePeatlandMinerotrophic", suffix>>]

C29_Src(suffix) ==
    <<"<iframe src=", "https://accs.uaa.alaska.edu/files/map-classes/plots/",
      "29_ArcticBrownMossSedgePeatlandMinerotrophic", suffix, ">">>

\* The files of a run that succeeds, from the data entry file alone.
C29_Files ==
    <<C29_Chart("_Structure.html"), C29_Chart("_DiagnosticSets.html"),
      C29_Chart("_SpeciesComposition.html"),
      [folder |-> "03_description_html",
       name |-> <<"29_ArcticBrownMossSedgePeatlandMinerotrophic", ".html">>]>>

C29_Values(file) ==
    LET name == parse_markdown(file, "Unit Name")
        level == parse_markdown(file, "Level")
        photos == parse_markdown(file, "Photos")
    IN  << <<<<"# Description Data Entry">>, <<"# ">> \o name>>,
           <<<<"**Unit Name:**", " ">> \o name, <<>>>>,
           <<<<"[unit_name]">>, name>>,
           <<<<"[level]">>, Lower(level)>>,
           <<<<"**Photos:**", " ">> \o photos, photo_html(photos)>>,
           <<<<"[table_structure]">>, <<"<table structure>">>>>,
           <<<<"[structure_plot]">>, C29_Src("_Structure.html")>>,
           <<<<"[diagnostic_plot]">>, C29_Src("_DiagnosticSets.html")>>,
           <<<<"[table_composition]">>, <<"<table composition>">>>>,
           <<<<"[composition_plot]">>, C29_Src("_SpeciesComposition.html")>>,
           <<<<"[physiography_text]">>, <<"physiography">>>>,
           <<<<"[geomorph_text]">>, <<"geomorphology">>>>,
           <<<<"[macrotopo_text]">>, <<"macrotopography">>>>,
           <<<<"[microtopo_text]">>, <<"microtopography">>>>,
           <<<<"[moisture_text]">>, <<"moisture">>>>,
           <<<<"[restrict_text]">>, <<"restrictive type">>>>,
           <<<<"[surfacewater_frequency]">>, <<"100.0%">>>>,
           <<<<"[table_environment]">>, <<"<table environment>">>>> >>

C29_Content(file) == ReplaceAll(file, C29_Values(file))

====
